---- MODULE Spec2Model ----
(***************************************************************************)
(* A model of the queue-sim coordination layer: gateway handlers, the      *)
(* matchmaker (locked and lock-less main loops), the multi-slot session    *)
(* runner and the reaper, all acting on one shared store.  Every store     *)
(* call of the source (one awaited redis command or one pipeline exec) is  *)
(* one atomic step; local computation between two awaits belongs to the    *)
(* step that precedes it.                                                  *)
(***************************************************************************)
EXTENDS Integers, Sequences, FiniteSets, TLC

\* ------------------------------------------------------------ bounds
NumPlayers == 2
NumSessions == 3
MaxGames == 3
MaxQueue == 4
MaxMsgs == 3

\* ------------------------------------------------- program constants
\* BATCH_SIZE is 100 in the source; the model scales it down, MAX_PULL keeps
\* the source's ratio of 4.
BATCH_SIZE == 2
MAX_PULL == 4 * BATCH_SIZE

Players == 1..NumPlayers
Sessions == 1..NumSessions
Games == 1..MaxGames
MMs == {1, 2}

Min(a, b) == IF a < b THEN a ELSE b

RECURSIVE SeqToBag(_)
\* The multiset of a sequence's entries, as a function from value to count.
SeqToBag(s) ==
  IF s = <<>> THEN [p \in Players |-> 0]
  ELSE LET b == SeqToBag(Tail(s)) IN [b EXCEPT ![Head(s)] = @ + 1]

SeqToSet(s) == {s[i] : i \in 1..Len(s)}

VARIABLES
  pstate,    \* player:{id}.state ("NONE": no record)
  pgame,     \* player:{id}.game_id (0: empty)
  hbStale,   \* player:{id}.heartbeat_at is older than STALE_MS
  queue,     \* queue:ready
  idle,      \* sessions:idle
  sstate,    \* session:{id}.state of the single-slot placement
  gstate,    \* game:{id}.state ("NONE": no record)
  gplayers,  \* game:{id}:players
  gsess,     \* game:{id}.session_id
  gEnded,    \* now >= game:{id}.end_at
  nextGame,  \* the next fresh game id (randomUUID)
  pubFound,  \* messages published on events:match_found, per game
  mmLock,    \* lock:matchmaker (0: absent, else the holder's pid)
  mmExpired, \* history: lock:matchmaker expired while its holder was inside
  mm,        \* each matchmaker process: its position and locals
  gw,        \* each gateway connection: identity and handler in flight
  sess,      \* session:{id} hash of the multi-slot runner
  avail,     \* sessions:available: score per member (0: not a member)
  finLock,   \* lock:finish:{game_id} is set
  finWrites, \* history: writes of state FINISHED, per game
  pubEnded,  \* messages published on events:match_ended, per game
  rn,        \* each session-runner process: its position and locals
  rp,        \* the reaper process: its position and locals
  ct,        \* the backend's containers (vmids in the session range)
  cp,        \* each capacity-provider tick: its position and locals
  cpt,       \* the capacity provider's timers lastScaleUp and lowUsageSince
  pttl,      \* the time to live of player:{id}: 0 none, else 1 or 2, the other
             \* one after each expire
  wsToPlayer, \* the gateway's map connection -> player id (0: no entry)
  playerToWs, \* the gateway's map player id -> connection (0: no entry)
  wsState,   \* each socket: open or not, and its handlers that are at an await
  calc       \* the arguments and the result of a computation checked alone

playerVars == <<pstate, pgame, hbStale>>
poolVars == <<idle, sstate>>
gameVars == <<gstate, gplayers, gsess, gEnded, nextGame, pubFound>>
mmVars == <<mmLock, mmExpired, mm>>
slotVars == <<sess, avail, finLock, finWrites, pubEnded, rn>>
capVars == <<ct, cp, cpt>>
connVars == <<wsToPlayer, playerToWs, wsState>>
extVars == <<calc, pttl, connVars>>
vars == <<pstate, pgame, hbStale, queue, idle, sstate, gstate, gplayers, gsess, gEnded,
          nextGame, pubFound, mmLock, mmExpired, mm, gw, sess, avail, finLock, finWrites, pubEnded, rn, rp,
          ct, cp, cpt, pttl, wsToPlayer, playerToWs, wsState, calc>>

Runners == {1, 2}
\* MAX_SLOTS is read from the environment (default 5); 1 is the smallest
\* setting and makes a session full after one reservation.
MAX_SLOTS == 1

MMInit(mode) ==
  [pc |-> "start", mode |-> mode, sid |-> 0, game |-> 0, picked |-> <<>>,
   toReturn |-> <<>>, inspected |-> 0, cands |-> <<>>, pull |-> 0, readyLen |-> 0,
   target |-> 0, i |-> 0, popped |-> <<>>, back |-> <<>>, result |-> <<>>,
   playerIds |-> <<>>, track |-> FALSE, q0 |-> <<>>]

\* A matchmaker whose record keeps, in q0, queue:ready as each call of
\* pickReadyPlayers found it: a history for the properties of one call.
MMInitTrack == [MMInit("lock") EXCEPT !.track = TRUE]

\* plan is the client's side: the message type it sends, "ANY" for a client
\* that sends whatever it likes and whose messages are handled as they arrive,
\* "FIFO" for a connection whose messages arrive in inbox and wait there for
\* their turn; sent counts the messages whose handler has started.
GwInit == [id |-> FALSE, pc |-> "idle", sent |-> 0, plan |-> "ANY", inbox |-> <<>>]

\* A chain that runs the handler of any waiting message, not the oldest.
SendsUnordered(c, t) ==
  \/ c.plan \in {"ANY", t}
  \/ c.plan = "FIFO" /\ \E i \in (c.sent + 1) .. Len(c.inbox) : c.inbox[i] = t

\* The next handler of connection c is that of a message of type t: the client
\* sends it now, or it is the oldest message waiting in the chain.
Sends(c, t) ==
  \/ c.plan \in {"ANY", t}
  \/ c.plan = "FIFO" /\ c.sent < Len(c.inbox) /\ c.inbox[c.sent + 1] = t

RnInit == [pc |-> "off", SESSION_ID |-> 1, activeGames |-> <<>>, todo |-> <<>>, cur |-> 0,
           now |-> {}, playerIds |-> {}]

RpInit == [pc |-> "sleep", snap |-> <<>>, keys |-> {}, todo |-> <<>>]

\* The executions of checkAndScale the interval timer has started.
Ticks == {1, 2}

\* A session:{id} hash without the runner's fields.
NoSlots == [max_slots |-> 0, active_games |-> 0, game_ids |-> <<>>]

\* A tick that has not started (or is over): containers is what the last call of
\* getSessionContainers returned, todo and keys what a loop has still to visit,
\* cur and act the maps currentAvailable and actualAvailability (0: no entry),
\* need the argument of scaleUp or scaleDown; sawEmpty and sawSome record what
\* the tick's calls of getSessionContainers returned.
CpInit ==
  [pc |-> "idle", containers |-> {}, todo |-> <<>>, keys |-> <<>>,
   cur |-> [s \in Sessions |-> 0], act |-> [s \in Sessions |-> 0], need |-> 0,
   sawEmpty |-> FALSE, sawSome |-> FALSE]

\* The gateway's connections of the identity maps: two sockets, enough for a
\* player who connects again while an older connection is still open.
Conns == {1, 2}

\* A socket nobody has connected yet: open is "new", "open" or "closed"; hello
\* is the player id of a HELLO that is at the await of setPlayerState, closing
\* the playerId of a close handler that is at the await of its hset (0: none).
WsInit == [open |-> "new", hello |-> 0, closing |-> 0]

\* Both identity maps are empty and no socket is open.
NoConns ==
  /\ wsToPlayer = [c \in Conns |-> 0]
  /\ playerToWs = [p \in Players |-> 0]
  /\ wsState = [c \in Conns |-> WsInit]

\* No computation is being checked alone.
NoCalc == [pig |-> 0, queue |-> 0, ppg |-> 1, sps |-> 1, lo |-> 0, hi |-> 0, total |-> 0,
           full |-> FALSE, needed |-> 0, request |-> 0, done |-> FALSE]

\* The players, the queue, the single-slot pool and the processes after
\* start-up, with the players' states st, the ready queue q, the gateway
\* connections g and the registered idle sessions ss.
InitCore(st, q, g, ss) ==
  /\ pstate = st
  /\ queue = q
  /\ gw = g
  /\ hbStale = [p \in Players |-> FALSE]
  /\ idle = ss
  /\ sstate = [s \in Sessions |-> IF s \in ss THEN "IDLE" ELSE "NONE"]
  /\ pubFound = [x \in Games |-> 0]
  /\ mmLock = 0
  /\ mmExpired = FALSE
  /\ finLock = [x \in Games |-> FALSE]
  /\ finWrites = [x \in Games |-> 0]
  /\ pubEnded = [x \in Games |-> 0]
  /\ gEnded = [x \in Games |-> FALSE]
  /\ rn = [r \in Runners |-> RnInit]
  /\ rp = RpInit
  /\ cp = [t \in Ticks |-> CpInit]
  /\ cpt = [upCool |-> FALSE, low |-> 0]
  /\ pttl = [p \in Players |-> IF st[p] # "NONE" THEN 1 ELSE 0]

\* The same with no socket of the identity maps open and no computation
\* checked alone.
InitBase(st, q, g, ss) ==
  /\ InitCore(st, q, g, ss)
  /\ NoConns
  /\ calc = NoCalc

\* A store without games and without multi-slot sessions.
InitFrom(st, q, g, ss) ==
  /\ InitBase(st, q, g, ss)
  /\ pgame = [p \in Players |-> 0]
  /\ gstate = [x \in Games |-> "NONE"]
  /\ gplayers = [x \in Games |-> {}]
  /\ gsess = [x \in Games |-> 0]
  /\ nextGame = 1
  /\ sess = [s \in Sessions |-> NoSlots]
  /\ avail = [s \in Sessions |-> 0]
  /\ ct = Sessions

\* Nobody has connected yet.
InitStore == InitFrom([p \in Players |-> "NONE"], <<>>, [p \in Players |-> GwInit], Sessions)

\* ---- gateway
\* server.ts, one connection per player.  A handler runs from one await to the
\* next; handlers of one connection are chained (messageQueue), the close
\* handler is not part of the chain.  Each player sends at most MaxMsgs messages.

\* redis.expire(key, 600) on a key whose time to live is ttl: a new one.
Refreshed(ttl) == IF ttl = 1 THEN 2 ELSE 1

\* HELLO, first half: the identity maps are set, then setPlayerState(id,
\* "IN_LOBBY") reads the stored state.
HelloRead(p) ==
  /\ gw[p].pc = "idle" /\ gw[p].sent < MaxMsgs /\ Sends(gw[p], "HELLO")
  /\ gw' = [gw EXCEPT ![p] = [id |-> TRUE, sent |-> gw[p].sent + 1, plan |-> gw[p].plan,
                              inbox |-> gw[p].inbox,
                              pc |-> IF pstate[p] \in {"READY", "IN_GAME"}
                                     THEN "hello_keep" ELSE "hello_set"]]
  /\ UNCHANGED <<extVars, playerVars, queue, poolVars, gameVars, mmVars, slotVars, rp, capVars>>

\* setPlayerState, second half: heartbeat only when the state read was READY or
\* IN_GAME, else state and heartbeat; then expire(key, 600) on both paths.
HelloWrite(p) ==
  /\ gw[p].pc \in {"hello_keep", "hello_set"}
  /\ pstate' = IF gw[p].pc = "hello_set" THEN [pstate EXCEPT ![p] = "IN_LOBBY"] ELSE pstate
  /\ hbStale' = [hbStale EXCEPT ![p] = FALSE]
  /\ gw' = [gw EXCEPT ![p].pc = "idle"]
  /\ pttl' = [pttl EXCEPT ![p] = Refreshed(@)]
  /\ UNCHANGED <<calc, connVars, pgame, queue, poolVars, gameVars, mmVars, slotVars, rp, capVars>>

\* READY_UP, first await: hset state READY and the heartbeat.
ReadyUpSet(p) ==
  /\ gw[p].id /\ gw[p].pc = "idle" /\ gw[p].sent < MaxMsgs /\ Sends(gw[p], "READY_UP")
  /\ pstate' = [pstate EXCEPT ![p] = "READY"]
  /\ hbStale' = [hbStale EXCEPT ![p] = FALSE]
  /\ gw' = [gw EXCEPT ![p].pc = "ready_push", ![p].sent = @ + 1]
  /\ UNCHANGED <<extVars, pgame, queue, poolVars, gameVars, mmVars, slotVars, rp, capVars>>

\* READY_UP, second await: rpush queue:ready.
ReadyUpPush(p) ==
  /\ gw[p].pc = "ready_push"
  /\ queue' = Append(queue, p)
  /\ gw' = [gw EXCEPT ![p].pc = "idle"]
  /\ UNCHANGED <<extVars, playerVars, poolVars, gameVars, mmVars, slotVars, rp, capVars>>

\* UNREADY: hset state IN_LOBBY and the heartbeat; the queue is not touched.
Unready(p) ==
  /\ gw[p].id /\ gw[p].pc = "idle" /\ gw[p].sent < MaxMsgs /\ Sends(gw[p], "UNREADY")
  /\ pstate' = [pstate EXCEPT ![p] = "IN_LOBBY"]
  /\ hbStale' = [hbStale EXCEPT ![p] = FALSE]
  /\ gw' = [gw EXCEPT ![p].sent = @ + 1]
  /\ UNCHANGED <<extVars, pgame, queue, poolVars, gameVars, mmVars, slotVars, rp, capVars>>

\* HEARTBEAT, first await: hget state.
HeartbeatRead(p) ==
  /\ gw[p].id /\ gw[p].pc = "idle" /\ gw[p].sent < MaxMsgs /\ Sends(gw[p], "HEARTBEAT")
  /\ gw' = [gw EXCEPT ![p].sent = @ + 1,
                      ![p].pc = IF pstate[p] # "NONE" THEN "beat_keep" ELSE "beat_set"]
  /\ UNCHANGED <<extVars, playerVars, queue, poolVars, gameVars, mmVars, slotVars, rp, capVars>>

\* HEARTBEAT, second await: the heartbeat alone when a state was read, else
\* state IN_LOBBY and the heartbeat.
HeartbeatWrite(p) ==
  /\ gw[p].pc \in {"beat_keep", "beat_set"}
  /\ pstate' = IF gw[p].pc = "beat_set" THEN [pstate EXCEPT ![p] = "IN_LOBBY"] ELSE pstate
  /\ hbStale' = [hbStale EXCEPT ![p] = FALSE]
  /\ gw' = [gw EXCEPT ![p].pc = "idle"]
  /\ UNCHANGED <<extVars, pgame, queue, poolVars, gameVars, mmVars, slotVars, rp, capVars>>

\* LEAVE: hset state IN_LOBBY (the heartbeat is not written), then ws.close(),
\* whose close event is Close.
Leave(p) ==
  /\ gw[p].id /\ gw[p].pc = "idle" /\ gw[p].sent < MaxMsgs /\ Sends(gw[p], "LEAVE")
  /\ pstate' = [pstate EXCEPT ![p] = "IN_LOBBY"]
  /\ gw' = [gw EXCEPT ![p].sent = @ + 1]
  /\ UNCHANGED <<extVars, pgame, hbStale, queue, poolVars, gameVars, mmVars, slotVars, rp, capVars>>

\* The state the close handler stores for a player whose stored state is st.
CloseState(st) == "IN_LOBBY"

\* ws.on("close"): drop the identity, then hset state IN_LOBBY.
Close(p) ==
  /\ gw[p].id
  /\ pstate' = [pstate EXCEPT ![p] = CloseState(pstate[p])]
  /\ gw' = [gw EXCEPT ![p].id = FALSE]
  /\ UNCHANGED <<extVars, pgame, hbStale, queue, poolVars, gameVars, mmVars, slotVars, rp, capVars>>

\* Time passes: the player's heartbeat becomes older than STALE_MS.
Age(p) ==
  /\ pstate[p] # "NONE" /\ ~hbStale[p]
  /\ hbStale' = [hbStale EXCEPT ![p] = TRUE]
  /\ UNCHANGED <<extVars, pstate, pgame, queue, poolVars, gameVars, mmVars, gw, slotVars, rp, capVars>>

\* ---- matchmaker
\* index.ts.  mode "lock" is the main loop of lines 209-266 with the
\* pickReadyPlayers of lines 90-145; mode "nolock" is the main loop of lines
\* 427-461 with the pickReadyPlayers of lines 333-377.

\* The position after a loop iteration of main (or after leaving the inner for).
LoopTop(r) == IF r.mode = "lock" THEN "release" ELSE "start"

\* pickReadyPlayers has returned players: main releases the session when the
\* batch is not full, else calls createMatch.
Returned(r, players) ==
  [r EXCEPT !.result = players, !.picked = <<>>, !.toReturn = <<>>, !.cands = <<>>,
            !.pull = 0,
            !.pc = IF Len(players) # BATCH_SIZE THEN "release_hset" ELSE "create"]

\* "If we didn't get enough, put the valid ones back": the partial batch is
\* pushed back and [] returned, else picked is returned.
AfterReturn(r) ==
  IF Len(r.picked) > 0 /\ Len(r.picked) < BATCH_SIZE
  THEN [r EXCEPT !.pc = "rpush_picked"]
  ELSE Returned(r, r.picked)

\* A pickReadyPlayers that forgets the READY players it popped beyond the batch.
AfterLoopDrop(r) == AfterReturn(r)

\* After the while loop: "Put back any READY players we didn't pick".
AfterLoop(r) ==
  IF Len(r.toReturn) > 0 THEN [r EXCEPT !.pc = "rpush_return"] ELSE AfterReturn(r)

\* A loop head without the inspected budget: it pulls while the batch is short.
LoopEntryGreedy(r) ==
  IF Len(r.picked) < BATCH_SIZE
  THEN [r EXCEPT !.pc = "lpop", !.pull = (BATCH_SIZE - Len(r.picked)) * 2, !.cands = <<>>]
  ELSE AfterLoop(r)

\* The head of the while loop: its condition, toPull and the break on toPull <= 0.
LoopEntry(r) ==
  IF Len(r.picked) < BATCH_SIZE /\ r.inspected < MAX_PULL
  THEN LET toPull == Min((BATCH_SIZE - Len(r.picked)) * 2, MAX_PULL - r.inspected)
       IN IF toPull <= 0 THEN AfterLoop(r)
          ELSE [r EXCEPT !.pc = "lpop", !.pull = toPull, !.cands = <<>>]
  ELSE AfterLoop(r)

\* An id in queue:ready whose player record is gone: the gateway gives every
\* record a TTL of ten minutes (server.ts, setPlayerState) and nothing removes
\* the entries of an expired record.
Ghost == 0

\* hget player:{id} state: null for an id without a record.
StateOf(st, id) == IF id \in DOMAIN st THEN st[id] ELSE "NONE"

\* One candidate read as READY, lines 121-128: picked until it holds BATCH_SIZE,
\* then toReturn.
TakeReady(r, id) ==
  IF Len(r.picked) < BATCH_SIZE
  THEN [r EXCEPT !.picked = Append(@, id)]
  ELSE [r EXCEPT !.toReturn = Append(@, id)]

RECURSIVE ClassifyAll(_, _, _)
\* A for loop that takes every candidate, whatever state was read.
ClassifyAll(r, cs, st) ==
  IF cs = <<>> THEN r ELSE ClassifyAll(TakeReady(r, Head(cs)), Tail(cs), st)

RECURSIVE Classify(_, _, _)
\* The for loop over the candidates (lines 117-130) against the states read.
Classify(r, cs, st) ==
  IF cs = <<>> THEN r
  ELSE IF StateOf(st, Head(cs)) = "READY"
       THEN Classify(TakeReady(r, Head(cs)), Tail(cs), st)
       ELSE Classify(r, Tail(cs), st)

RECURSIVE ClassifyLegacy(_, _, _)
\* The for loop of lines 358-367: READY candidates are picked and the loop
\* breaks once picked is full; the candidates after the break are not looked at.
ClassifyLegacy(r, cs, st) ==
  IF cs = <<>> \/ Len(r.picked) >= BATCH_SIZE THEN r
  ELSE IF StateOf(st, Head(cs)) = "READY"
       THEN ClassifyLegacy([r EXCEPT !.picked = Append(@, Head(cs))], Tail(cs), st)
       ELSE ClassifyLegacy(r, Tail(cs), st)

\* A SET without NX: it answers OK whatever the key holds.
AcquireAlways(lock) == TRUE

\* SET lock:matchmaker pid PX 5000 NX answers OK.
AcquireOK(lock) == lock = 0

\* acquireMatchmakerLock at the top of the locked main loop; a failure sleeps.
MMAcquire(m) ==
  /\ mm[m].pc = "start" /\ mm[m].mode = "lock"
  /\ IF AcquireOK(mmLock)
     THEN /\ mmLock' = m
          /\ mm' = [mm EXCEPT ![m].pc = "llen"]
     ELSE /\ mmLock' = mmLock
          /\ mm' = [mm EXCEPT ![m].pc = "sleep"]
  /\ UNCHANGED <<extVars, playerVars, queue, poolVars, gameVars, mmExpired, gw, slotVars, rp, capVars>>

\* sleep(SLEEP_MS_IDLE) after a failed acquire is over.
MMSleep(m) ==
  /\ mm[m].pc = "sleep"
  /\ mm' = [mm EXCEPT ![m].pc = "start"]
  /\ UNCHANGED <<extVars, playerVars, queue, poolVars, gameVars, mmLock, mmExpired, gw, slotVars, rp, capVars>>

\* llen queue:ready; fewer than BATCH_SIZE entries end the iteration.  The
\* lock-less main loop starts its iteration here.
MMLlen(m) ==
  /\ mm[m].pc = (IF mm[m].mode = "lock" THEN "llen" ELSE "start")
  /\ mm' = [mm EXCEPT ![m].readyLen = Len(queue),
                      ![m].pc = IF Len(queue) < BATCH_SIZE THEN LoopTop(mm[m])
                                ELSE IF mm[m].mode = "lock" THEN "scard" ELSE "reserve"]
  /\ UNCHANGED <<extVars, playerVars, queue, poolVars, gameVars, mmLock, mmExpired, gw, slotVars, rp, capVars>>

\* scard sessions:idle and targetMatches.
MMScard(m) ==
  /\ mm[m].pc = "scard"
  /\ LET t == Min(mm[m].readyLen \div BATCH_SIZE, Cardinality(idle))
     IN mm' = [mm EXCEPT ![m].target = t, ![m].i = 0,
                         ![m].pc = IF t <= 0 THEN "release" ELSE "reserve"]
  /\ UNCHANGED <<extVars, playerVars, queue, poolVars, gameVars, mmLock, mmExpired, gw, slotVars, rp, capVars>>

\* reserveIdleSession, first await: spop sessions:idle.
MMReserve(m) ==
  /\ mm[m].pc = "reserve"
  /\ IF idle = {}
     THEN /\ mm' = [mm EXCEPT ![m].pc = LoopTop(mm[m])]
          /\ idle' = idle
     ELSE \E s \in idle :
            /\ idle' = idle \ {s}
            /\ mm' = [mm EXCEPT ![m].sid = s, ![m].pc = "reserve_hset"]
  /\ UNCHANGED <<extVars, playerVars, queue, sstate, gameVars, mmLock, mmExpired, gw, slotVars, rp, capVars>>

\* reserveIdleSession, second await: hset state RESERVED; pickReadyPlayers starts.
MMReserveHset(m) ==
  /\ mm[m].pc = "reserve_hset"
  /\ sstate' = [sstate EXCEPT ![mm[m].sid] = "RESERVED"]
  /\ mm' = [mm EXCEPT ![m] = LoopEntry([mm[m] EXCEPT !.picked = <<>>, !.toReturn = <<>>,
                                          !.inspected = 0, !.cands = <<>>, !.popped = <<>>,
                                          !.back = <<>>, !.result = <<>>,
                                          !.q0 = IF mm[m].track THEN queue ELSE <<>>])]
  /\ UNCHANGED <<extVars, playerVars, queue, idle, gameVars, mmLock, mmExpired, gw, slotVars, rp, capVars>>

\* One lpop queue:ready of the candidate loop (lines 103-110).
MMLpop(m) ==
  /\ mm[m].pc = "lpop"
  /\ IF queue = <<>>
     THEN /\ queue' = queue
          /\ mm' = [mm EXCEPT ![m] =
                      IF mm[m].cands = <<>> THEN AfterLoop(mm[m])
                      ELSE [mm[m] EXCEPT !.pc = "hget",
                                         !.inspected = @ + Len(mm[m].cands)]]
     ELSE /\ queue' = Tail(queue)
          /\ LET cs == Append(mm[m].cands, Head(queue))
             IN mm' = [mm EXCEPT ![m] =
                         IF mm[m].pull = 1
                         THEN [mm[m] EXCEPT !.cands = cs, !.pull = 0, !.pc = "hget",
                                            !.inspected = @ + Len(cs)]
                         ELSE [mm[m] EXCEPT !.cands = cs, !.pull = @ - 1]]
  /\ UNCHANGED <<extVars, playerVars, poolVars, gameVars, mmLock, mmExpired, gw, slotVars, rp, capVars>>

\* The pipeline of hget player:{id} state, and the classification of the
\* candidates against what it read.  popped records, for the properties, the
\* candidates whose state was read as READY.
MMHget(m) ==
  /\ mm[m].pc = "hget"
  /\ LET IsReady(id) == StateOf(pstate, id) = "READY"
         r == IF mm[m].mode = "lock" THEN Classify(mm[m], mm[m].cands, pstate)
              ELSE ClassifyLegacy(mm[m], mm[m].cands, pstate)
     IN mm' = [mm EXCEPT ![m] =
                 LoopEntry([r EXCEPT !.cands = <<>>,
                                     !.popped = @ \o SelectSeq(mm[m].cands, IsReady)])]
  /\ UNCHANGED <<extVars, playerVars, queue, poolVars, gameVars, mmLock, mmExpired, gw, slotVars, rp, capVars>>

\* rpush queue:ready ...toReturn.
MMRpushReturn(m) ==
  /\ mm[m].pc = "rpush_return"
  /\ queue' = queue \o mm[m].toReturn
  /\ mm' = [mm EXCEPT ![m] = AfterReturn([mm[m] EXCEPT !.back = @ \o mm[m].toReturn])]
  /\ UNCHANGED <<extVars, playerVars, poolVars, gameVars, mmLock, mmExpired, gw, slotVars, rp, capVars>>

\* rpush queue:ready ...picked, and return [].
MMRpushPicked(m) ==
  /\ mm[m].pc = "rpush_picked"
  /\ queue' = queue \o mm[m].picked
  /\ mm' = [mm EXCEPT ![m] = Returned([mm[m] EXCEPT !.back = @ \o mm[m].picked], <<>>)]
  /\ UNCHANGED <<extVars, playerVars, poolVars, gameVars, mmLock, mmExpired, gw, slotVars, rp, capVars>>

\* releaseSessionBackToIdle, first await: hset state IDLE.
MMReleaseHset(m) ==
  /\ mm[m].pc = "release_hset"
  /\ sstate' = [sstate EXCEPT ![mm[m].sid] = "IDLE"]
  /\ mm' = [mm EXCEPT ![m].pc = "release_sadd", ![m].result = <<>>, ![m].popped = <<>>,
                      ![m].back = <<>>, ![m].inspected = 0, ![m].q0 = <<>>]
  /\ UNCHANGED <<extVars, playerVars, queue, idle, gameVars, mmLock, mmExpired, gw, slotVars, rp, capVars>>

\* releaseSessionBackToIdle, second await: sadd sessions:idle; main leaves the
\* iteration.
MMReleaseSadd(m) ==
  /\ mm[m].pc = "release_sadd"
  /\ idle' = idle \cup {mm[m].sid}
  /\ mm' = [mm EXCEPT ![m].sid = 0, ![m].pc = LoopTop(mm[m])]
  /\ UNCHANGED <<extVars, playerVars, queue, sstate, gameVars, mmLock, mmExpired, gw, slotVars, rp, capVars>>

\* A createMatch whose pipeline leaves the players set out.
GamePlayersNone(batch) == {}

\* The player set createMatch stores for a batch: one sadd per entry.
GamePlayers(batch) == SeqToSet(batch)

\* createMatch, the pipeline: the game hash, its players set, every player
\* IN_GAME, the session BUSY.
MMCreate(m) ==
  /\ mm[m].pc = "create"
  /\ nextGame <= MaxGames
  /\ LET g == nextGame
         ps == GamePlayers(mm[m].result)
     IN /\ gstate' = [gstate EXCEPT ![g] = "RUNNING"]
        /\ gplayers' = [gplayers EXCEPT ![g] = ps]
        /\ gsess' = [gsess EXCEPT ![g] = mm[m].sid]
        /\ pstate' = [p \in Players |-> IF p \in ps THEN "IN_GAME" ELSE pstate[p]]
        /\ pgame' = [p \in Players |-> IF p \in ps THEN g ELSE pgame[p]]
        /\ hbStale' = [p \in Players |-> IF p \in ps THEN FALSE ELSE hbStale[p]]
        /\ sstate' = [sstate EXCEPT ![mm[m].sid] = "BUSY"]
        /\ nextGame' = nextGame + 1
        /\ mm' = [mm EXCEPT ![m].game = g, ![m].pc = "publish", ![m].result = <<>>,
                            ![m].playerIds = mm[m].result,
                            ![m].popped = <<>>, ![m].back = <<>>, ![m].inspected = 0,
                            ![m].q0 = <<>>]
  /\ UNCHANGED <<extVars, queue, idle, gEnded, pubFound, mmLock, mmExpired, gw, slotVars, rp, capVars>>

\* createMatch, publish events:match_found; then the next iteration.
MMPublish(m) ==
  /\ mm[m].pc = "publish"
  /\ pubFound' = [pubFound EXCEPT ![mm[m].game] = @ + 1]
  /\ mm' = [mm EXCEPT ![m].i = @ + 1, ![m].sid = 0, ![m].game = 0, ![m].playerIds = <<>>,
                      ![m].pc = IF mm[m].mode = "lock"
                                THEN (IF mm[m].i + 1 < mm[m].target THEN "reserve"
                                      ELSE "release")
                                ELSE "start"]
  /\ UNCHANGED <<extVars, playerVars, queue, poolVars, gstate, gplayers, gsess, gEnded, nextGame,
                 mmLock, mmExpired, gw, slotVars, rp, capVars>>

\* releaseMatchmakerLock in the finally block: del lock:matchmaker.
MMRelease(m) ==
  /\ mm[m].pc = "release"
  /\ mmLock' = 0
  /\ mm' = [mm EXCEPT ![m] = [MMInit("lock") EXCEPT !.track = mm[m].track]]
  /\ UNCHANGED <<extVars, playerVars, queue, poolVars, gameVars, mmExpired, gw, slotVars, rp, capVars>>

\* The catch block of the reservation's try (lines 250-256) after a throw without
\* the release: the session id is forgotten.
CaughtNoRelease(r) ==
  [r EXCEPT !.pc = LoopTop(r), !.sid = 0, !.game = 0, !.picked = <<>>, !.toReturn = <<>>,
            !.cands = <<>>, !.pull = 0, !.result = <<>>, !.popped = <<>>, !.back = <<>>,
            !.inspected = 0, !.playerIds = <<>>, !.q0 = <<>>]

\* The catch block of the reservation's try (lines 250-256): pickReadyPlayers or
\* createMatch is abandoned with its locals, releaseSessionBackToIdle is called.
Caught(r) ==
  [r EXCEPT !.pc = "release_hset", !.game = 0, !.picked = <<>>, !.toReturn = <<>>,
            !.cands = <<>>, !.pull = 0, !.result = <<>>, !.popped = <<>>, !.back = <<>>,
            !.inspected = 0, !.playerIds = <<>>, !.q0 = <<>>]

\* The store call a matchmaker is about to make inside the try (an lpop, the
\* hget pipeline or an rpush of pickReadyPlayers, the pipeline or the publish of
\* createMatch) rejects: nothing is written, the catch block runs.
MMThrow(m) ==
  /\ mm[m].pc \in {"lpop", "hget", "rpush_return", "rpush_picked", "create", "publish"}
  /\ mm' = [mm EXCEPT ![m] = Caught(mm[m])]
  /\ UNCHANGED <<extVars, playerVars, queue, poolVars, gameVars, mmLock, mmExpired, gw, slotVars, rp, capVars>>

\* The matchmakers inside the critical section of the locked main loop.
Inside == {m \in MMs : mm[m].mode = "lock" /\ mm[m].pc \notin {"start", "sleep"}}

\* The PX 5000 of lock:matchmaker runs out.
MMLockExpire ==
  /\ mmLock # 0
  /\ mmLock' = 0
  /\ mmExpired' = TRUE
  /\ UNCHANGED <<extVars, playerVars, queue, poolVars, gameVars, mm, gw, slotVars, rp, capVars>>

MMStep(m) ==
  \/ MMAcquire(m) \/ MMSleep(m) \/ MMLlen(m) \/ MMScard(m) \/ MMReserve(m)
  \/ MMReserveHset(m) \/ MMLpop(m) \/ MMHget(m) \/ MMRpushReturn(m) \/ MMRpushPicked(m)
  \/ MMReleaseHset(m) \/ MMReleaseSadd(m) \/ MMCreate(m) \/ MMPublish(m) \/ MMRelease(m)

\* ---- reaper
\* reap_stale_players.ts.

\* lrem queue:ready 0 id: every occurrence of id is removed.
Lrem(q, id) == LET Keep(x) == x # id IN SelectSeq(q, Keep)

\* The test of line 38 on what the pipeline read for one queue entry.
ReapEntry(st, stale) == st # "READY" \/ stale

\* The entries of the snapshot the loop of lines 33-41 removes, in its order,
\* given the states and heartbeats the pipeline read.
ToReap(snap, st, stale) ==
  LET Gone(id) == ReapEntry(st[id], stale[id]) IN SelectSeq(snap, Gone)

\* After the queue pass (or its early return) main calls cleanupPlayers.
RpAfterQueue(r) == [r EXCEPT !.pc = "scan", !.snap = <<>>]

\* cleanupReadyQueue, first await: lrange queue:ready 0 -1.
RpSnapshot ==
  /\ rp.pc = "sleep"
  /\ rp' = IF queue = <<>> THEN RpAfterQueue(rp) ELSE [rp EXCEPT !.pc = "read", !.snap = queue]
  /\ UNCHANGED <<extVars, playerVars, queue, poolVars, gameVars, mmVars, gw, slotVars, capVars>>

\* cleanupReadyQueue, second await: the pipeline reads state and heartbeat_at of
\* every entry of the snapshot.
RpRead ==
  /\ rp.pc = "read"
  /\ LET rem == ToReap(rp.snap, pstate, hbStale)
     IN rp' = IF rem = <<>> THEN RpAfterQueue(rp) ELSE [rp EXCEPT !.pc = "lrem", !.snap = rem]
  /\ UNCHANGED <<extVars, playerVars, queue, poolVars, gameVars, mmVars, gw, slotVars, capVars>>

\* cleanupReadyQueue, one lrem of the loop of lines 33-41.
RpLrem ==
  /\ rp.pc = "lrem"
  /\ queue' = Lrem(queue, Head(rp.snap))
  /\ rp' = IF Tail(rp.snap) = <<>> THEN RpAfterQueue(rp) ELSE [rp EXCEPT !.snap = Tail(@)]
  /\ UNCHANGED <<extVars, playerVars, poolVars, gameVars, mmVars, gw, slotVars, capVars>>

\* A cleanupPlayers that finds no key stale.
StaleKeysNone(keys, stale) == <<>>

\* The keys of one pipeline of cleanupPlayers whose heartbeat is stale, in key order.
RECURSIVE StaleKeys(_, _)
StaleKeys(keys, stale) ==
  IF keys = {} THEN <<>>
  ELSE LET p == CHOOSE x \in keys : \A y \in keys : x <= y
       IN (IF stale[p] THEN <<p>> ELSE <<>>) \o StaleKeys(keys \ {p}, stale)

\* cleanupPlayers: scan player:* (one batch: fewer keys than SCAN_BATCH).
RpScan ==
  /\ rp.pc = "scan"
  /\ rp' = LET keys == {p \in Players : pstate[p] # "NONE"}
           IN IF keys = {} THEN [rp EXCEPT !.pc = "sleep"]
              ELSE [rp EXCEPT !.pc = "pread", !.keys = keys]
  /\ UNCHANGED <<extVars, playerVars, queue, poolVars, gameVars, mmVars, gw, slotVars, capVars>>

\* cleanupPlayers: the pipeline reads state and heartbeat_at of the scanned keys.
RpPRead ==
  /\ rp.pc = "pread"
  /\ LET todo == StaleKeys(rp.keys, hbStale)
     IN rp' = [rp EXCEPT !.keys = {}, !.todo = todo,
                         !.pc = IF todo = <<>> THEN "sleep" ELSE "plrem"]
  /\ UNCHANGED <<extVars, playerVars, queue, poolVars, gameVars, mmVars, gw, slotVars, capVars>>

\* cleanupPlayers: lrem queue:ready 0 id of a stale player.
RpPLrem ==
  /\ rp.pc = "plrem"
  /\ queue' = Lrem(queue, Head(rp.todo))
  /\ rp' = [rp EXCEPT !.pc = "phset"]
  /\ UNCHANGED <<extVars, playerVars, poolVars, gameVars, mmVars, gw, slotVars, capVars>>

\* cleanupPlayers: hset state IN_LOBBY, game_id "", session_id "".
RpPHset ==
  /\ rp.pc = "phset"
  /\ pstate' = [pstate EXCEPT ![Head(rp.todo)] = "IN_LOBBY"]
  /\ pgame' = [pgame EXCEPT ![Head(rp.todo)] = 0]
  /\ rp' = [rp EXCEPT !.todo = Tail(@),
                      !.pc = IF Tail(rp.todo) = <<>> THEN "sleep" ELSE "plrem"]
  /\ UNCHANGED <<extVars, hbStale, queue, poolVars, gameVars, mmVars, gw, slotVars, capVars>>

\* ---- session runner
\* runner.ts.  activeGames is the runner's local Set, kept in insertion order;
\* todo is what a for loop has still to visit, cur the game in hand, now the
\* games whose end_at had passed when processActiveGames read the clock.

Without(s, g) == SelectSeq(s, LAMBDA x : x # g)

\* An updateAvailability that publishes a free session whatever T holds.
updateAvailabilityFree(r, T) ==
  /\ sess' = [sess EXCEPT ![rn[r].SESSION_ID] = [max_slots |-> MAX_SLOTS, active_games |-> 0,
                                                 game_ids |-> <<>>]]
  /\ avail' = [avail EXCEPT ![rn[r].SESSION_ID] = MAX_SLOTS]

\* updateAvailability with the local set T: the session hash and the member of
\* sessions:available, one pipeline.
updateAvailability(r, T) ==
  LET availableSlots == MAX_SLOTS - Len(T)
      sid == rn[r].SESSION_ID
  IN /\ sess' = [sess EXCEPT ![sid] = [max_slots |-> MAX_SLOTS, active_games |-> Len(T),
                                       game_ids |-> T]]
     /\ avail' = [avail EXCEPT ![sid] = IF availableSlots > 0 THEN availableSlots ELSE 0]

\* A for loop of processActiveGames moves on: the next game, or the sleep and the
\* next iteration of main.
Continue(rec) ==
  IF rec.todo = <<>> THEN [rec EXCEPT !.pc = "check", !.cur = 0, !.now = {}, !.playerIds = {}]
  ELSE [rec EXCEPT !.pc = "proc", !.cur = 0, !.playerIds = {}]

\* checkForNewGames is over: processActiveGames reads the clock and starts its loop.
StartProcess(rec) ==
  Continue([rec EXCEPT !.todo = rec.activeGames,
                       !.now = {g \in SeqToSet(rec.activeGames) : gEnded[g]}])

\* registerSession: hgetall session:{SESSION_ID}.
RnRegRead(r) ==
  /\ rn[r].pc = "off"
  /\ rn' = [rn EXCEPT ![r].todo = sess[rn[r].SESSION_ID].game_ids,
                      ![r].pc = IF sess[rn[r].SESSION_ID].game_ids = <<>>
                                THEN "reg_update" ELSE "reg_check"]
  /\ UNCHANGED <<extVars, playerVars, queue, poolVars, gameVars, mmVars, gw, sess, avail, finLock,
                 finWrites, pubEnded, rp, capVars>>

\* registerSession: hget game:{gameId} state of one listed game.
RnRegCheck(r) ==
  /\ rn[r].pc = "reg_check"
  /\ LET g == Head(rn[r].todo)
         rest == Tail(rn[r].todo)
     IN rn' = [rn EXCEPT ![r].activeGames = IF gstate[g] = "RUNNING" /\ g \notin SeqToSet(@)
                                            THEN Append(@, g) ELSE @,
                         ![r].todo = rest,
                         ![r].pc = IF rest = <<>> THEN "reg_update" ELSE "reg_check"]
  /\ UNCHANGED <<extVars, playerVars, queue, poolVars, gameVars, mmVars, gw, sess, avail, finLock,
                 finWrites, pubEnded, rp, capVars>>

\* registerSession: updateAvailability; main enters its loop.
RnRegUpdate(r) ==
  /\ rn[r].pc = "reg_update"
  /\ updateAvailability(r, rn[r].activeGames)
  /\ rn' = [rn EXCEPT ![r].pc = "check"]
  /\ UNCHANGED <<extVars, playerVars, queue, poolVars, gameVars, mmVars, gw, finLock, finWrites, pubEnded, rp, capVars>>

\* checkForNewGames: hgetall session:{SESSION_ID}; the listed games not tracked.
RnCheckRead(r) ==
  /\ rn[r].pc = "check"
  /\ LET new == SelectSeq(sess[rn[r].SESSION_ID].game_ids,
                          LAMBDA g : g \notin SeqToSet(rn[r].activeGames))
     IN rn' = [rn EXCEPT ![r] = IF new = <<>> THEN StartProcess(rn[r])
                                ELSE [rn[r] EXCEPT !.todo = new, !.pc = "check_game"]]
  /\ UNCHANGED <<extVars, playerVars, queue, poolVars, gameVars, mmVars, gw, sess, avail, finLock,
                 finWrites, pubEnded, rp, capVars>>

\* checkForNewGames: hget game:{gameId} state; a RUNNING game is adopted.
RnCheckGame(r) ==
  /\ rn[r].pc = "check_game"
  /\ LET g == Head(rn[r].todo)
         rec == [rn[r] EXCEPT !.activeGames = IF gstate[g] = "RUNNING" THEN Append(@, g) ELSE @,
                              !.todo = Tail(@)]
     IN rn' = [rn EXCEPT ![r] = IF rec.todo = <<>> THEN StartProcess(rec) ELSE rec]
  /\ UNCHANGED <<extVars, playerVars, queue, poolVars, gameVars, mmVars, gw, sess, avail, finLock,
                 finWrites, pubEnded, rp, capVars>>

\* processActiveGames: hgetall game:{gameId}.  A missing or FINISHED game is
\* dropped, a game past its end_at goes to acquireFinishLock.
RnProcRead(r) ==
  /\ rn[r].pc = "proc"
  /\ LET g == Head(rn[r].todo)
         rec == [rn[r] EXCEPT !.todo = Tail(@), !.cur = g]
     IN rn' = [rn EXCEPT ![r] =
                 IF gstate[g] # "RUNNING"
                 THEN [rec EXCEPT !.activeGames = Without(@, g), !.pc = "proc_update"]
                 ELSE IF g \in rec.now THEN [rec EXCEPT !.pc = "lock"]
                 ELSE Continue(rec)]
  /\ UNCHANGED <<extVars, playerVars, queue, poolVars, gameVars, mmVars, gw, sess, avail, finLock,
                 finWrites, pubEnded, rp, capVars>>

\* processActiveGames: updateAvailability after dropping a game.
RnProcUpdate(r) ==
  /\ rn[r].pc = "proc_update"
  /\ updateAvailability(r, rn[r].activeGames)
  /\ rn' = [rn EXCEPT ![r] = Continue(rn[r])]
  /\ UNCHANGED <<extVars, playerVars, queue, poolVars, gameVars, mmVars, gw, finLock, finWrites, pubEnded, rp, capVars>>

\* SET lock:finish:{gameId} 1 PX 5000 NX answers OK.
FinishLockOK(held) == ~held

\* acquireFinishLock.
RnAcquire(r) ==
  /\ rn[r].pc = "lock"
  /\ LET g == rn[r].cur
     IN IF FinishLockOK(finLock[g])
        THEN /\ finLock' = [finLock EXCEPT ![g] = TRUE]
             /\ rn' = [rn EXCEPT ![r].pc = "fin_read"]
        ELSE /\ finLock' = finLock
             /\ rn' = [rn EXCEPT ![r] = Continue(rn[r])]
  /\ UNCHANGED <<extVars, playerVars, queue, poolVars, gameVars, mmVars, gw, sess, avail, finWrites, pubEnded, rp, capVars>>

\* finishGame: smembers game:{gameId}:players.
RnFinRead(r) ==
  /\ rn[r].pc = "fin_read"
  /\ rn' = [rn EXCEPT ![r].playerIds = gplayers[rn[r].cur], ![r].pc = "fin_write"]
  /\ UNCHANGED <<extVars, playerVars, queue, poolVars, gameVars, mmVars, gw, sess, avail, finLock,
                 finWrites, pubEnded, rp, capVars>>

\* finishGame: the pipeline that marks the game FINISHED and returns its
\* players to the lobby; the game leaves the local set.
RnFinWrite(r) ==
  /\ rn[r].pc = "fin_write"
  /\ LET g == rn[r].cur
         ps == rn[r].playerIds
     IN /\ gstate' = [gstate EXCEPT ![g] = "FINISHED"]
        /\ finWrites' = [finWrites EXCEPT ![g] = @ + 1]
        /\ pstate' = [p \in Players |-> IF p \in ps THEN "IN_LOBBY" ELSE pstate[p]]
        /\ pgame' = [p \in Players |-> IF p \in ps THEN 0 ELSE pgame[p]]
        /\ hbStale' = [p \in Players |-> IF p \in ps THEN FALSE ELSE hbStale[p]]
        /\ rn' = [rn EXCEPT ![r].activeGames = Without(@, g), ![r].pc = "fin_update"]
  /\ UNCHANGED <<extVars, queue, poolVars, gplayers, gsess, gEnded, nextGame, pubFound, mmVars, gw,
                 sess, avail, finLock, pubEnded, rp, capVars>>

\* finishGame: updateAvailability.
RnFinUpdate(r) ==
  /\ rn[r].pc = "fin_update"
  /\ updateAvailability(r, rn[r].activeGames)
  /\ rn' = [rn EXCEPT ![r].pc = "fin_publish"]
  /\ UNCHANGED <<extVars, playerVars, queue, poolVars, gameVars, mmVars, gw, finLock, finWrites, pubEnded, rp, capVars>>

\* finishGame: publish events:match_ended.
RnFinPublish(r) ==
  /\ rn[r].pc = "fin_publish"
  /\ pubEnded' = [pubEnded EXCEPT ![rn[r].cur] = @ + 1]
  /\ rn' = [rn EXCEPT ![r] = Continue(rn[r])]
  /\ UNCHANGED <<extVars, playerVars, queue, poolVars, gameVars, mmVars, gw, sess, avail, finLock,
                 finWrites, rp, capVars>>

\* A finish lock that is never given up.
FinLockKept(g) ==
  /\ finLock[g]
  /\ UNCHANGED vars

\* The PX 5000 of lock:finish:{gameId} runs out.
FinLockExpire(g) ==
  /\ finLock[g]
  /\ finLock' = [finLock EXCEPT ![g] = FALSE]
  /\ UNCHANGED <<extVars, playerVars, queue, poolVars, gameVars, mmVars, gw, sess, avail, finWrites,
                 pubEnded, rn, rp, capVars>>

\* The clock passes end_at of a RUNNING game.
GameTimeUp(g) ==
  /\ gstate[g] = "RUNNING" /\ ~gEnded[g]
  /\ gEnded' = [gEnded EXCEPT ![g] = TRUE]
  /\ UNCHANGED <<extVars, playerVars, queue, poolVars, gstate, gplayers, gsess, nextGame, pubFound,
                 mmVars, gw, slotVars, rp, capVars>>

RnStep(r) ==
  \/ RnRegRead(r) \/ RnRegCheck(r) \/ RnRegUpdate(r) \/ RnCheckRead(r) \/ RnCheckGame(r)
  \/ RnProcRead(r) \/ RnProcUpdate(r) \/ RnAcquire(r) \/ RnFinRead(r) \/ RnFinWrite(r)
  \/ RnFinUpdate(r) \/ RnFinPublish(r)

\* ---- capacity provider
\* The autoscaler (checkAndScale and what it calls).  The containers of the
\* backend and the sessions share their ids (session-{vmid}); the legacy key
\* shape session:{vmid} and its dedupe are left out.  One awaited store or
\* backend call is one step; the reads of getScalingMetrics are one snapshot.

\* config.scaling, scaled down with the model's sessions: the vmid range is
\* Sessions, a session has MAX_SLOTS slots, a game BATCH_SIZE players.
minSessions == 1
maxSessions == 2
slotsPerSession == MAX_SLOTS
playersPerSession == BATCH_SIZE
scaleUpBatchSize == 1
scaleDownBatchSize == 1
scaleUpThreshold == 80
scaleDownThreshold == 30

RECURSIVE Ascending(_)
\* The ids of a set in ascending order.
Ascending(S) ==
  IF S = {} THEN <<>>
  ELSE LET x == CHOOSE y \in S : \A z \in S : y <= z IN <<x>> \o Ascending(S \ {x})

RECURSIVE Descending(_)
\* idleContainers.sort((a, b) => b.vmid - a.vmid).
Descending(S) ==
  IF S = {} THEN <<>>
  ELSE LET x == CHOOSE y \in S : \A z \in S : y >= z IN <<x>> \o Descending(S \ {x})

\* The first n entries of a sequence: slice(0, n).
Slice(s, n) == SubSeq(s, 1, Min(n, Len(s)))

\* session:{id} exists: it has the state field (createSessionContainer, the
\* single-slot matchmaker) or the runner's fields.
KeyExists(s) == sstate[s] # "NONE" \/ sess[s].max_slots # 0

\* redis.keys('session:*').
SessionKeys == {s \in Sessions : KeyExists(s)}

\* parseInt(sessionData.max_slots || slotsPerSession) - parseInt(active_games || '0').
AvailableSlotsOf(s) ==
  (IF sess[s].max_slots = 0 THEN slotsPerSession ELSE sess[s].max_slots) - sess[s].active_games

\* What getSessionContainers can return: the backend's containers, or [] when
\* the API call fails.
ListResults == {ct, {}}

\* The tick's record after a call of getSessionContainers that returned res.
Listed(c, res) ==
  [c EXCEPT !.containers = res,
            !.sawEmpty = @ \/ res = {}, !.sawSome = @ \/ res # {}]

\* setInterval fires: a tick starts with reconcileSessions.
CpTick(t) ==
  /\ cp[t].pc = "idle"
  /\ cp' = [cp EXCEPT ![t] = [CpInit EXCEPT !.pc = "rec_list"]]
  /\ UNCHANGED <<extVars, playerVars, queue, poolVars, gameVars, mmVars, gw, slotVars, rp, ct, cpt>>

\* reconcileSessions: getSessionContainers and the guard of lines 497-502.
CpRecList(t) ==
  /\ cp[t].pc = "rec_list"
  /\ \E res \in ListResults :
       cp' = [cp EXCEPT ![t] = [Listed(cp[t], res) EXCEPT
                                  !.pc = IF res = {} THEN "metrics" ELSE "rec_keys"]]
  /\ UNCHANGED <<extVars, playerVars, queue, poolVars, gameVars, mmVars, gw, slotVars, rp, ct, cpt>>

\* reconcileSessions: keys session:*; the keys whose vmid the backend did not list.
CpRecKeys(t) ==
  /\ cp[t].pc = "rec_keys"
  /\ LET orphans == Ascending(SessionKeys \ cp[t].containers)
     IN cp' = [cp EXCEPT ![t].todo = orphans,
                         ![t].pc = IF orphans = <<>> THEN "rec_zrange" ELSE "rec_del"]
  /\ UNCHANGED <<extVars, playerVars, queue, poolVars, gameVars, mmVars, gw, slotVars, rp, ct, cpt>>

\* redis.del(session:{id}): the hash is gone with all its fields.
DelKey(s) ==
  /\ sstate' = [sstate EXCEPT ![s] = "NONE"]
  /\ sess' = [sess EXCEPT ![s] = NoSlots]

\* reconcileSessions: del of one orphaned key (lines 534-540).
CpRecDel(t) ==
  /\ cp[t].pc = "rec_del"
  /\ DelKey(Head(cp[t].todo))
  /\ cp' = [cp EXCEPT ![t].todo = Tail(@),
                      ![t].pc = IF Tail(cp[t].todo) = <<>> THEN "rec_zrange" ELSE "rec_del"]
  /\ UNCHANGED <<extVars, playerVars, queue, idle, gameVars, mmVars, gw, avail, finLock, finWrites,
                 pubEnded, rn, rp, ct, cpt>>

\* reconcileSessions: zrange sessions:available WITHSCORES.
CpRecZrange(t) ==
  /\ cp[t].pc = "rec_zrange"
  /\ cp' = [cp EXCEPT ![t].cur = avail, ![t].pc = "rec_keys2"]
  /\ UNCHANGED <<extVars, playerVars, queue, poolVars, gameVars, mmVars, gw, slotVars, rp, ct, cpt>>

\* A sync that adds and updates members and never removes one.
ToRemoveNone(c) == <<>>

\* The members of currentAvailable without an entry in actualAvailability, in
\* the order of the loop of lines 599-604.
ToRemove(c) == Ascending({s \in Sessions : c.cur[s] > 0 /\ c.act[s] = 0})

\* The entries of actualAvailability the loop of lines 586-595 writes.
ToAdd(c) == Ascending({s \in Sessions : c.act[s] > 0 /\ c.cur[s] # c.act[s]})

\* After the zadd loop: the zrem loop, then the del of sessions:idle.
AfterAdd(c) ==
  IF ToRemove(c) = <<>> THEN [c EXCEPT !.pc = "rec_idle", !.todo = <<>>]
  ELSE [c EXCEPT !.pc = "rec_zrem", !.todo = ToRemove(c)]

\* actualAvailability is complete: the zadd loop.
AfterHgetall(c) ==
  IF ToAdd(c) = <<>> THEN AfterAdd(c)
  ELSE [c EXCEPT !.pc = "rec_zadd", !.todo = ToAdd(c)]

\* reconcileSessions: keys session:* again (line 566).
CpRecKeys2(t) ==
  /\ cp[t].pc = "rec_keys2"
  /\ LET c == [cp[t] EXCEPT !.keys = Ascending(SessionKeys)]
     IN cp' = [cp EXCEPT ![t] = IF c.keys = <<>> THEN AfterHgetall(c)
                                ELSE [c EXCEPT !.pc = "rec_hgetall"]]
  /\ UNCHANGED <<extVars, playerVars, queue, poolVars, gameVars, mmVars, gw, slotVars, rp, ct, cpt>>

\* reconcileSessions: hgetall of one session key (lines 569-581).
CpRecHgetall(t) ==
  /\ cp[t].pc = "rec_hgetall"
  /\ LET s == Head(cp[t].keys)
         slots == AvailableSlotsOf(s)
         c == [cp[t] EXCEPT !.keys = Tail(@),
                            !.act = IF slots > 0 THEN [@ EXCEPT ![s] = slots] ELSE @]
     IN cp' = [cp EXCEPT ![t] = IF c.keys = <<>> THEN AfterHgetall(c) ELSE c]
  /\ UNCHANGED <<extVars, playerVars, queue, poolVars, gameVars, mmVars, gw, slotVars, rp, ct, cpt>>

\* reconcileSessions: one zadd sessions:available slots sessionId.
CpRecZadd(t) ==
  /\ cp[t].pc = "rec_zadd"
  /\ LET s == Head(cp[t].todo)
     IN avail' = [avail EXCEPT ![s] = cp[t].act[s]]
  /\ cp' = [cp EXCEPT ![t] = IF Tail(cp[t].todo) = <<>> THEN AfterAdd(cp[t])
                             ELSE [cp[t] EXCEPT !.todo = Tail(@)]]
  /\ UNCHANGED <<extVars, playerVars, queue, poolVars, gameVars, mmVars, gw, sess, finLock, finWrites,
                 pubEnded, rn, rp, ct, cpt>>

\* reconcileSessions: one zrem sessions:available sessionId.
CpRecZrem(t) ==
  /\ cp[t].pc = "rec_zrem"
  /\ avail' = [avail EXCEPT ![Head(cp[t].todo)] = 0]
  /\ cp' = [cp EXCEPT ![t].todo = Tail(@),
                      ![t].pc = IF Tail(cp[t].todo) = <<>> THEN "rec_idle" ELSE "rec_zrem"]
  /\ UNCHANGED <<extVars, playerVars, queue, poolVars, gameVars, mmVars, gw, sess, finLock, finWrites,
                 pubEnded, rn, rp, ct, cpt>>

\* reconcileSessions: del sessions:idle (line 607).
CpRecIdle(t) ==
  /\ cp[t].pc = "rec_idle"
  /\ idle' = {}
  /\ cp' = [cp EXCEPT ![t].pc = "metrics"]
  /\ UNCHANGED <<extVars, playerVars, queue, sstate, gameVars, mmVars, gw, slotVars, rp, ct, cpt>>

RECURSIVE Sum(_, _)
\* The sum of f over the set S.
Sum(f, S) ==
  IF S = {} THEN 0 ELSE LET x == CHOOSE y \in S : TRUE IN f[x] + Sum(f, S \ {x})

\* Math.ceil(a / b) for a >= 0, b > 0.
Ceil(a, b) == (a + b - 1) \div b

Max(a, b) == IF a > b THEN a ELSE b

\* getScalingMetrics on the store as it is.
Metrics ==
  LET keys == SessionKeys
      totalSlots == Sum([s \in Sessions |-> IF sess[s].max_slots = 0 THEN slotsPerSession
                                           ELSE sess[s].max_slots], keys)
      usedSlots == Sum([s \in Sessions |-> sess[s].active_games], keys)
  IN [queueLength |-> Len(queue),
      totalSessions |-> Cardinality(keys),
      totalSlots |-> totalSlots,
      usedSlots |-> usedSlots,
      availableSlots |-> totalSlots - usedSlots,
      playersInGame |-> Sum([g \in Games |-> Cardinality(gplayers[g])],
                            {g \in Games : gstate[g] = "RUNNING"})]

\* A sessionsNeeded that rounds the games down.
NeededFloor(totalDemand, perSession, slots) == Ceil(totalDemand \div perSession, slots)

\* sessionsNeeded of checkAndScale (lines 636-638): the games the demand needs,
\* then the sessions these games need, each rounded up.
SessionsNeeded(totalDemand, perSession, slots) == Ceil(Ceil(totalDemand, perSession), slots)

\* Math.max(lo, Math.min(hi, x)) (line 639).
Clamp(x, lo, hi) == Max(lo, Min(hi, x))

\* clampedNeeded of checkAndScale (lines 636-639).
ClampedNeeded(m) ==
  Clamp(SessionsNeeded(m.playersInGame + m.queueLength, playersPerSession, slotsPerSession),
        minSessions, maxSessions)

\* The slot starvation test of checkAndScale (lines 644-648).
Starved(m) ==
  /\ m.queueLength >= playersPerSession
  /\ m.availableSlots = 0
  /\ m.totalSessions < maxSessions

\* utilizationPercent > scaleUpThreshold * 100 (line 660); the utilization is
\* usedSlots / totalSlots * 100, 0 without slots (lines 338-339).
HighUsage(m) == m.totalSlots > 0 /\ m.usedSlots * 100 > scaleUpThreshold * m.totalSlots

\* utilizationPercent < scaleDownThreshold * 100 (line 667).
LowUsage(m) == m.totalSlots = 0 \/ m.usedSlots * 100 < scaleDownThreshold * m.totalSlots

\* The branch checkAndScale takes on the metrics m and its argument: the slot
\* starvation branch, the two utilization branches, or the balanced one.
\* utilizationPercent is usedSlots / totalSlots * 100, 0 without slots.
Decision(m) ==
  LET additionalNeeded == Min(Ceil(Ceil(m.queueLength, playersPerSession), slotsPerSession),
                              maxSessions - m.totalSessions)
      deficit == ClampedNeeded(m) - m.totalSessions
      excess == m.totalSessions - Max(minSessions, ClampedNeeded(m))
  IN IF Starved(m) /\ additionalNeeded > 0
     THEN [branch |-> "up", n |-> additionalNeeded]
     ELSE IF HighUsage(m)
     THEN (IF deficit > 0 THEN [branch |-> "up", n |-> deficit]
           ELSE [branch |-> "none", n |-> 0])
     ELSE IF LowUsage(m) /\ m.totalSessions > minSessions
     THEN (IF excess > 0 THEN [branch |-> "down", n |-> excess]
           ELSE [branch |-> "none", n |-> 0])
     ELSE [branch |-> "balanced", n |-> 0]

\* checkAndScale after reconcileSessions: the metrics, the branch, and the
\* first lines of scaleUp (cooldown) or scaleDown (low-usage timer).
CpMetrics(t) ==
  /\ cp[t].pc = "metrics"
  /\ LET d == Decision(Metrics)
     IN \/ /\ d.branch = "up"
           /\ cp' = [cp EXCEPT ![t].need = d.n,
                               ![t].pc = IF cpt.upCool THEN "idle" ELSE "up_list"]
           /\ cpt' = cpt
        \/ /\ d.branch = "down"
           /\ cp' = [cp EXCEPT ![t].need = d.n,
                               ![t].pc = IF cpt.low = 2 THEN "down_list" ELSE "idle"]
           /\ cpt' = [cpt EXCEPT !.low = IF @ = 0 THEN 1 ELSE @]
        \/ /\ d.branch = "none"
           /\ cp' = [cp EXCEPT ![t].pc = "idle"]
           /\ cpt' = cpt
        \/ /\ d.branch = "balanced"
           /\ cp' = [cp EXCEPT ![t].pc = "idle"]
           /\ cpt' = [cpt EXCEPT !.low = 0]
  /\ UNCHANGED <<extVars, playerVars, queue, poolVars, gameVars, mmVars, gw, slotVars, rp, ct>>

\* scaleUpCooldown has passed since lastScaleUp.
CpCoolOver ==
  /\ cpt.upCool
  /\ cpt' = [cpt EXCEPT !.upCool = FALSE]
  /\ UNCHANGED <<extVars, playerVars, queue, poolVars, gameVars, mmVars, gw, slotVars, rp, ct, cp>>

\* scaleDownCooldown has passed since lowUsageSince.
CpLowElapsed ==
  /\ cpt.low = 1
  /\ cpt' = [cpt EXCEPT !.low = 2]
  /\ UNCHANGED <<extVars, playerVars, queue, poolVars, gameVars, mmVars, gw, slotVars, rp, ct, cp>>

\* scaleUp: getSessionContainers and maxToCreate (lines 409-422).
CpUpList(t) ==
  /\ cp[t].pc = "up_list"
  /\ \E res \in ListResults :
       LET maxToCreate == Min(Min(cp[t].need, maxSessions - Cardinality(res)), scaleUpBatchSize)
       IN cp' = [cp EXCEPT ![t] = [Listed(cp[t], res) EXCEPT
                                     !.need = maxToCreate,
                                     !.pc = IF maxToCreate <= 0 THEN "idle" ELSE "up_find"]]
  /\ UNCHANGED <<extVars, playerVars, queue, poolVars, gameVars, mmVars, gw, slotVars, rp, ct, cpt>>

\* scaleUp is over: the tick ends.
UpDone(c) == [c EXCEPT !.pc = "idle", !.todo = <<>>]

\* The timers after a step of scaleUp that leaves the tick's record c: lines
\* 431-432 (lastScaleUp = now, lowUsageSince = 0) when the loop is over.
UpTimers(c) == IF c.pc = "idle" THEN [upCool |-> TRUE, low |-> 0] ELSE cpt

\* scaleUp: findAvailableVmids, the first free vmids of the range.
CpUpFind(t) ==
  /\ cp[t].pc = "up_find"
  /\ \E res \in ListResults :
       LET vmids == Slice(Ascending(Sessions \ res), cp[t].need)
       IN cp' = [cp EXCEPT ![t] = IF vmids = <<>> THEN UpDone(Listed(cp[t], res))
                                  ELSE [Listed(cp[t], res) EXCEPT !.todo = vmids,
                                                                  !.pc = "up_create"]]
  /\ cpt' = UpTimers(cp'[t])
  /\ UNCHANGED <<extVars, playerVars, queue, poolVars, gameVars, mmVars, gw, slotVars, rp, ct>>

\* The loop of scaleUp moves on.
UpNext(c) ==
  IF Tail(c.todo) = <<>> THEN UpDone(c) ELSE [c EXCEPT !.todo = Tail(@), !.pc = "up_create"]

\* createSessionContainer, the backend calls: the clone fails (always when the
\* vmid is taken), or the container is cloned and a later call fails, or it is
\* cloned, configured and started.
CpUpCreate(t) ==
  /\ cp[t].pc = "up_create"
  /\ LET v == Head(cp[t].todo)
     IN \/ /\ ct' = ct
           /\ cp' = [cp EXCEPT ![t] = UpNext(cp[t])]
        \/ /\ v \notin ct
           /\ ct' = ct \cup {v}
           /\ \/ cp' = [cp EXCEPT ![t] = UpNext(cp[t])]
              \/ cp' = [cp EXCEPT ![t].pc = "up_hset"]
  /\ cpt' = UpTimers(cp'[t])
  /\ UNCHANGED <<extVars, playerVars, queue, poolVars, gameVars, mmVars, gw, slotVars, rp>>

\* createSessionContainer: hset session:{id} state IDLE (lines 201-207).
CpUpHset(t) ==
  /\ cp[t].pc = "up_hset"
  /\ sstate' = [sstate EXCEPT ![Head(cp[t].todo)] = "IDLE"]
  /\ cp' = [cp EXCEPT ![t] = UpNext(cp[t])]
  /\ cpt' = UpTimers(cp'[t])
  /\ UNCHANGED <<extVars, playerVars, queue, idle, gameVars, mmVars, gw, slotVars, rp, ct>>

\* scaleDown is over (lines 485-486): lowUsageSince = 0, the tick ends.
DownDone(c) == [c EXCEPT !.pc = "idle", !.todo = <<>>, !.keys = <<>>]

\* The timers after a step of scaleDown's loop that leaves the tick's record c.
DownTimers(c) == IF c.pc = "idle" THEN [cpt EXCEPT !.low = 0] ELSE cpt

\* A scaleDown that removes the excess down to the last container listed.
FloorNone(excess, room) == Min(excess, room + minSessions)

\* maxToRemove of scaleDown (lines 455-458).
MaxToRemove(excess, room) == Min(excess, room)

\* scaleDown: getSessionContainers and maxToRemove (lines 451-463).
CpDownList(t) ==
  /\ cp[t].pc = "down_list"
  /\ \E res \in ListResults :
       LET maxToRemove == MaxToRemove(cp[t].need, Cardinality(res) - minSessions)
       IN cp' = [cp EXCEPT ![t] =
                   IF maxToRemove <= 0 THEN [Listed(cp[t], res) EXCEPT !.pc = "idle"]
                   ELSE [Listed(cp[t], res) EXCEPT !.need = maxToRemove,
                                                   !.keys = Ascending(res), !.todo = <<>>,
                                                   !.pc = "down_hget"]]
  /\ UNCHANGED <<extVars, playerVars, queue, poolVars, gameVars, mmVars, gw, slotVars, rp, ct, cpt>>

\* scaleDown: hget session:{id} state of one container (lines 467-473); after
\* the last one the idle containers are sorted, highest vmid first, and cut to
\* maxToRemove.  todo collects idleContainers, then holds toRemove.
CpDownHget(t) ==
  /\ cp[t].pc = "down_hget"
  /\ LET s == Head(cp[t].keys)
         c == [cp[t] EXCEPT !.keys = Tail(@),
                            !.todo = IF sstate[s] \in {"IDLE", "NONE"} THEN Append(@, s) ELSE @]
         toRemove == Slice(Descending(SeqToSet(c.todo)), c.need)
     IN cp' = [cp EXCEPT ![t] = IF c.keys # <<>> THEN c
                                ELSE IF toRemove = <<>> THEN DownDone(c)
                                ELSE [c EXCEPT !.todo = toRemove, !.pc = "down_destroy"]]
  /\ cpt' = DownTimers(cp'[t])
  /\ UNCHANGED <<extVars, playerVars, queue, poolVars, gameVars, mmVars, gw, slotVars, rp, ct>>

\* The loop of scaleDown moves on.
DownNext(c) ==
  IF Tail(c.todo) = <<>> THEN DownDone(c) ELSE [c EXCEPT !.todo = Tail(@), !.pc = "down_destroy"]

\* destroySessionContainer, the backend calls: the destroy fails (always when
\* the container is gone) and nothing is removed from the store, or the
\* container is stopped and destroyed.
CpDownDestroy(t) ==
  /\ cp[t].pc = "down_destroy"
  /\ LET v == Head(cp[t].todo)
     IN \/ /\ ct' = ct
           /\ cp' = [cp EXCEPT ![t] = DownNext(cp[t])]
        \/ /\ v \in ct
           /\ ct' = ct \ {v}
           /\ cp' = [cp EXCEPT ![t].pc = "down_del"]
  /\ cpt' = DownTimers(cp'[t])
  /\ UNCHANGED <<extVars, playerVars, queue, poolVars, gameVars, mmVars, gw, slotVars, rp>>

\* destroySessionContainer: del session:{id} (line 240).
CpDownDel(t) ==
  /\ cp[t].pc = "down_del"
  /\ DelKey(Head(cp[t].todo))
  /\ cp' = [cp EXCEPT ![t].pc = "down_zrem"]
  /\ UNCHANGED <<extVars, playerVars, queue, idle, gameVars, mmVars, gw, avail, finLock, finWrites,
                 pubEnded, rn, rp, ct, cpt>>

\* destroySessionContainer: zrem sessions:available (lines 241-242).
CpDownZrem(t) ==
  /\ cp[t].pc = "down_zrem"
  /\ avail' = [avail EXCEPT ![Head(cp[t].todo)] = 0]
  /\ cp' = [cp EXCEPT ![t] = DownNext(cp[t])]
  /\ cpt' = DownTimers(cp'[t])
  /\ UNCHANGED <<extVars, playerVars, queue, poolVars, gameVars, mmVars, gw, sess, finLock, finWrites,
                 pubEnded, rn, rp, ct>>

\* One step of a tick of checkAndScale.
CpStep(t) ==
  \/ CpTick(t) \/ CpRecList(t) \/ CpRecKeys(t) \/ CpRecDel(t) \/ CpRecZrange(t)
  \/ CpRecKeys2(t) \/ CpRecHgetall(t) \/ CpRecZadd(t) \/ CpRecZrem(t) \/ CpRecIdle(t)
  \/ CpMetrics(t) \/ CpUpList(t) \/ CpUpFind(t) \/ CpUpCreate(t) \/ CpUpHset(t)
  \/ CpDownList(t) \/ CpDownHget(t) \/ CpDownDestroy(t) \/ CpDownDel(t) \/ CpDownZrem(t)

\* ---- multi-slot placement
\* The matchmaker's reservation against sessions:available and the creation of
\* the game on the reserved slot.

\* Session slot reservation: the member with the highest score loses one slot
\* and leaves the index at zero; active_games is incremented and the new game
\* id appended to game_ids.
SlotReserve ==
  /\ nextGame <= MaxGames
  /\ \E s \in Sessions :
       /\ avail[s] > 0
       /\ \A t \in Sessions : avail[t] <= avail[s]
       /\ avail' = [avail EXCEPT ![s] = @ - 1]
       /\ sess' = [sess EXCEPT ![s].active_games = @ + 1,
                               ![s].game_ids = Append(@, nextGame)]
       /\ gsess' = [gsess EXCEPT ![nextGame] = s]
  /\ nextGame' = nextGame + 1
  /\ UNCHANGED <<extVars, playerVars, queue, poolVars, gstate, gplayers, gEnded, pubFound, mmVars, gw,
                 finLock, finWrites, pubEnded, rn, rp, capVars>>

\* The game record of a reserved slot is written: RUNNING on that session.  The
\* batch is left out: game:{id}:players stays empty.
SlotCreate(g) ==
  /\ gstate[g] = "NONE" /\ gsess[g] # 0
  /\ gstate' = [gstate EXCEPT ![g] = "RUNNING"]
  /\ UNCHANGED <<extVars, playerVars, queue, poolVars, gplayers, gsess, gEnded, nextGame, pubFound,
                 mmVars, gw, slotVars, rp, capVars>>

\* ---- specification: batching
\* One locked matchmaker runs its main loop on a store in which the players have
\* said HELLO and sent READY_UP and UNREADY in any number and order: the queue is
\* any sequence of player ids, a READY player has at least one entry.
Identified == [p \in Players |-> [GwInit EXCEPT !.id = TRUE]]

QueuesUpTo(n) == UNION {[1..k -> Players] : k \in 0..n}

InitPick ==
  /\ mm = [m \in MMs |-> MMInit("lock")]
  /\ \E st \in [Players -> {"IN_LOBBY", "READY"}], q \in QueuesUpTo(MaxQueue) :
       /\ \A p \in Players : st[p] = "READY" => p \in SeqToSet(q)
       /\ InitFrom(st, q, Identified, Sessions)

NextPick ==
  \/ MMAcquire(1) \/ MMLlen(1) \/ MMScard(1) \/ MMReserve(1) \/ MMReserveHset(1)
  \/ MMLpop(1) \/ MMHget(1) \/ MMRpushReturn(1) \/ MMRpushPicked(1) \/ MMReleaseHset(1)
  \/ MMReleaseSadd(1) \/ MMCreate(1) \/ MMPublish(1) \/ MMRelease(1)

SpecPick == InitPick /\ [][NextPick]_vars

\* C1 (exact batch size): every game the matchmaker created has a player set of
\* exactly BATCH_SIZE distinct player ids, whatever the queue held, duplicate
\* entries of one READY player included.
ExactBatchSize ==
  \A g \in Games : gstate[g] # "NONE" => Cardinality(gplayers[g]) = BATCH_SIZE

IsSuffix(b, q) == Len(b) <= Len(q) /\ SubSeq(q, Len(q) - Len(b) + 1, Len(q)) = b

QueueSafetyShortWitness ==
  \E m \in MMs : mm[m].pc = "release_hset" /\ mm[m].back # <<>> /\ mm[m].result = <<>>

\* ---- specification: gateway
\* The gateway alone: every player connects, says HELLO, readies, unreadies and
\* disconnects in any order.
InitGate ==
  /\ InitStore
  /\ mm = [m \in MMs |-> MMInit("lock")]

NextGate ==
  \E p \in Players :
    \/ HelloRead(p) \/ HelloWrite(p) \/ ReadyUpSet(p) \/ ReadyUpPush(p)
    \/ Unready(p) \/ Close(p)

SpecGate == InitGate /\ [][NextGate]_vars

\* C5 (monotone state on disconnect): a step of the close handler (the only step
\* that drops a connection's identity) leaves the state of a player who is
\* READY or IN_GAME as it was.
CloseMonotone ==
  [][\A p \in Players :
       (gw[p].id /\ ~gw'[p].id /\ pstate[p] \in {"READY", "IN_GAME"})
         => pstate'[p] = pstate[p]]_vars

\* ---- specification: matchmaker lock
\* Two matchmakers run the locked main loop; the lock's TTL may run out at any
\* moment.  Every player is READY, the first one has readied twice.
LockQueue == [i \in 1..(NumPlayers + 1) |-> IF i <= NumPlayers THEN i ELSE 1]

InitLock ==
  /\ InitFrom([p \in Players |-> "READY"], LockQueue, Identified, Sessions)
  /\ mm = [m \in MMs |-> MMInit("lock")]

NextLock ==
  \/ \E m \in MMs : MMStep(m)
  \/ MMLockExpire

SpecLock == InitLock /\ [][NextLock]_vars

\* C9 as stated (matchmaker lock mutual exclusion): at most one matchmaker is
\* inside the critical section at any time, expiry of the lock included.
MutualExclusion == Cardinality(Inside) <= 1

\* C9 as amended: at most one matchmaker is inside the critical section as long
\* as lock:matchmaker has not expired under a holder.
MutualExclusionUntilExpiry == ~mmExpired => Cardinality(Inside) <= 1

\* One matchmaker is inside, the other one was refused the lock and sleeps.
MutualExclusionWitness ==
  /\ ~mmExpired
  /\ \E m1, m2 \in MMs : m1 \in Inside /\ mm[m1].pc = "lpop" /\ mm[m2].pc = "sleep"

\* ---- specification: reaper
\* The players are connected; they ready and unready while one locked
\* matchmaker and the reaper run.  No heartbeat grows stale.
InitReaper ==
  /\ InitFrom([p \in Players |-> "IN_LOBBY"], <<>>, Identified, {1})
  /\ mm = [m \in MMs |-> MMInit("lock")]

NextReaper ==
  \/ \E p \in Players : ReadyUpSet(p) \/ ReadyUpPush(p) \/ Unready(p)
  \/ \E p \in Players : gw[p].sent = MaxMsgs /\ Age(p)
  \/ NextPick
  \/ RpSnapshot \/ RpRead \/ RpLrem \/ RpScan \/ RpPRead \/ RpPLrem \/ RpPHset

SpecReaper == InitReaper /\ [][NextReaper]_vars

\* The ids a matchmaker holds between popping them and returning them to the
\* queue or writing them into a game.
Held(m) ==
  IF mm[m].pc \in {"lpop", "hget", "rpush_return", "rpush_picked", "create"}
  THEN SeqToSet(mm[m].cands) \cup SeqToSet(mm[m].picked) \cup SeqToSet(mm[m].toReturn)
         \cup SeqToSet(mm[m].result)
  ELSE {}

InRunningGame(p) == \E g \in Games : gstate[g] = "RUNNING" /\ p \in gplayers[g]

\* C3 (no lost ready players): a player whose READY_UP has completed and who is
\* still READY with a fresh heartbeat and connected is in a game, or has an
\* entry in queue:ready, or is in the hands of a matchmaker that popped the entry.
NoLostReady ==
  \A p \in Players :
    (pstate[p] = "READY" /\ ~hbStale[p] /\ gw[p].id /\ gw[p].pc = "idle")
      => \/ p \in SeqToSet(queue)
         \/ InRunningGame(p)
         \/ \E m \in MMs : p \in Held(m)

\* ---- specification: unready
\* The gateway's READY_UP and UNREADY handlers of both players against one
\* locked matchmaker and one idle session; every player starts IN_LOBBY, so a
\* queue entry of a player who is IN_LOBBY comes from a READY_UP followed by an
\* UNREADY.
InitUnready ==
  /\ InitFrom([p \in Players |-> "IN_LOBBY"], <<>>, Identified, {1})
  /\ mm = [m \in MMs |-> MMInit("lock")]

NextUnready ==
  \/ \E p \in Players : ReadyUpSet(p) \/ ReadyUpPush(p) \/ Unready(p)
  \/ NextPick

SpecUnready == InitUnready /\ [][NextUnready]_vars

\* C8 (READY_UP then UNREADY): no step creates a game that contains a player
\* whose state, as last written by the gateway, is IN_LOBBY.
NeverPlacedFromLobby ==
  [][\A g \in Games : \A p \in Players :
       (gstate[g] = "NONE" /\ gstate'[g] = "RUNNING" /\ p \in gplayers'[g])
         => pstate[p] # "IN_LOBBY"]_vars

\* ---- specification: no lock
\* Two matchmakers of the lock-less main loop on a queue that holds every
\* player, the first one twice, and NumSessions idle sessions.
InitNoLock ==
  /\ InitFrom([p \in Players |-> "READY"], LockQueue, Identified, Sessions)
  /\ mm = [m \in MMs |-> MMInit("nolock")]

NextNoLock ==
  \E m \in MMs :
    \/ MMLlen(m) \/ MMReserve(m) \/ MMReserveHset(m) \/ MMLpop(m) \/ MMHget(m)
    \/ MMRpushPicked(m) \/ MMReleaseHset(m) \/ MMReleaseSadd(m) \/ MMCreate(m)
    \/ MMPublish(m)

SpecNoLock == InitNoLock /\ [][NextNoLock]_vars

\* The number of entries of s that are id.
Count(s, id) == Cardinality({i \in 1..Len(s) : s[i] = id})

\* No session is in the hands of two matchmakers.
NoDoubleReservation ==
  \A m1, m2 \in MMs : (m1 # m2 /\ mm[m1].sid # 0) => mm[m1].sid # mm[m2].sid

\* No queue entry is in the hands of two matchmakers: the entries of a player in
\* the queue and in the matchmakers' hands are never more than the queue held.
NoDoubleConsumption ==
  \A p \in Players :
    LET held(m) == Count(mm[m].cands, p) + Count(mm[m].picked, p) + Count(mm[m].result, p)
    IN Count(queue, p) + held(1) + held(2) <= Count(LockQueue, p)

\* C10 (correctness without the lock): two lock-less matchmakers never hold the
\* same session, never hold the same queue entry, and every game they create
\* has exactly BATCH_SIZE players.
NoLockCorrect ==
  /\ NoDoubleReservation
  /\ NoDoubleConsumption
  /\ \A g \in Games : gstate[g] = "RUNNING" => Cardinality(gplayers[g]) = BATCH_SIZE

\* ---- specification: finish
\* Two runner processes started with the same SESSION_ID (a restart that
\* overlaps the old process) on a session that holds one RUNNING game, the
\* clock and the expiry of the finish lock.
InitFinish ==
  /\ InitBase([p \in Players |-> IF p <= BATCH_SIZE THEN "IN_GAME" ELSE "IN_LOBBY"],
              <<>>, Identified, {})
  /\ pgame = [p \in Players |-> IF p <= BATCH_SIZE THEN 1 ELSE 0]
  /\ mm = [m \in MMs |-> MMInit("lock")]
  /\ gstate = [x \in Games |-> IF x = 1 THEN "RUNNING" ELSE "NONE"]
  /\ gplayers = [x \in Games |-> IF x = 1 THEN {p \in Players : p <= BATCH_SIZE} ELSE {}]
  /\ gsess = [x \in Games |-> IF x = 1 THEN 1 ELSE 0]
  /\ nextGame = 2
  /\ sess = [s \in Sessions |-> IF s = 1
                                 THEN [max_slots |-> MAX_SLOTS, active_games |-> 1,
                                       game_ids |-> <<1>>]
                                 ELSE NoSlots]
  /\ avail = [s \in Sessions |-> 0]
  /\ ct = Sessions

NextFinish ==
  \/ \E r \in Runners : RnStep(r)
  \/ \E g \in Games : GameTimeUp(g) \/ FinLockExpire(g)

SpecFinish == InitFinish /\ [][NextFinish]_vars

\* C2 (exactly-once finish): no game is written FINISHED by more than one
\* finalization and no game has more than one events:match_ended message.
ExactlyOnceFinish ==
  \A g \in Games : finWrites[g] <= 1 /\ pubEnded[g] <= 1

\* ---- specification: session runners
\* Two runner processes started with the same SESSION_ID (a restart that
\* overlaps the old process), the multi-slot placement, the clock and the
\* expiry of the finish locks.
InitRunner ==
  /\ InitFrom([p \in Players |-> "IN_LOBBY"], <<>>, Identified, {})
  /\ mm = [m \in MMs |-> MMInit("lock")]

NextRunner ==
  \/ \E r \in Runners : RnStep(r)
  \/ SlotReserve
  \/ \E g \in Games : SlotCreate(g) \/ GameTimeUp(g) \/ FinLockExpire(g)

SpecRunner == InitRunner /\ [][NextRunner]_vars

\* C4 (slot accounting): a session's active_games never exceeds its max_slots,
\* and the score of a member of sessions:available is max_slots - active_games.
SlotAccounting ==
  \A s \in Sessions :
    /\ sess[s].active_games <= sess[s].max_slots
    /\ avail[s] > 0 => avail[s] = sess[s].max_slots - sess[s].active_games

\* C6 (single placement): a RUNNING game is listed in the game_ids of exactly
\* one session, the one it references, and counted in its active_games.
SinglePlacement ==
  \A g \in Games :
    gstate[g] = "RUNNING" =>
      /\ \A s \in Sessions : (g \in SeqToSet(sess[s].game_ids)) <=> (s = gsess[g])
      /\ sess[gsess[g]].active_games
           >= Cardinality({x \in Games : gstate[x] = "RUNNING" /\ gsess[x] = gsess[g]})

\* ---- specification: failures
\* Two matchmakers run the locked main loop and any store call inside the
\* reservation's try may reject; the lock's TTL may run out at any moment.
NextThrow ==
  \/ \E m \in MMs : MMStep(m) \/ MMThrow(m)
  \/ MMLockExpire

SpecThrow == InitLock /\ [][NextThrow]_vars

\* C11 (release on failure): a session no matchmaker has in hand is in
\* sessions:idle with state IDLE, as before its reservation, or it is BUSY with
\* a game created on it; a throw in pickReadyPlayers or createMatch, after the
\* write group included, leaves no session reserved.
ReleaseOnFailure ==
  \A s \in Sessions :
    (\A m \in MMs : mm[m].sid # s) =>
      \/ s \in idle /\ sstate[s] = "IDLE"
      \/ s \notin idle /\ sstate[s] = "BUSY"
           /\ \E g \in Games : gstate[g] = "RUNNING" /\ gsess[g] = s

\* The publish of createMatch has thrown and the release is over: a game is
\* RUNNING and was never announced, its session is idle again.
ReleaseOnFailureWitness ==
  /\ \A m \in MMs : mm[m].sid = 0 /\ mm[m].pc = "start"
  /\ \E g \in Games :
       gstate[g] = "RUNNING" /\ pubFound[g] = 0 /\ gsess[g] \in idle
         /\ sstate[gsess[g]] = "IDLE"

\* ---- specification: round trip
\* The gateway, the locked matchmaker with one registered session and the
\* session runner started with that session's id, from an empty store.  The
\* matchmaker's createMatch writes session:{id}.state and game_id, the runner
\* reads session:{id}.game_ids: of the runner's steps only those of a session
\* that lists no game are enabled, the others are left out of the next-state
\* relation.
InitRound ==
  /\ InitFrom([p \in Players |-> "NONE"], <<>>, [p \in Players |-> GwInit], {1})
  /\ mm = [m \in MMs |-> MMInit("lock")]

NextRound ==
  \/ \E p \in Players :
       \/ HelloRead(p) \/ HelloWrite(p) \/ ReadyUpSet(p) \/ ReadyUpPush(p) \/ Unready(p)
  \/ NextPick
  \/ RnRegRead(1) \/ RnRegUpdate(1) \/ RnCheckRead(1)
  \/ \E g \in Games : GameTimeUp(g)

SpecRound == InitRound /\ [][NextRound]_vars

\* Every process keeps running: a handler in flight completes, the matchmaker
\* and the runner take their next step, the clock advances.
SpecRoundFair ==
  /\ SpecRound
  /\ \A p \in Players : WF_vars(HelloWrite(p)) /\ WF_vars(ReadyUpPush(p))
  /\ WF_vars(NextPick)
  /\ WF_vars(RnRegRead(1) \/ RnRegUpdate(1) \/ RnCheckRead(1))
  /\ \A g \in Games : WF_vars(GameTimeUp(g))

\* C12 (round trip): a player who was matched into a game whose end_at has
\* passed is eventually back IN_LOBBY with game_id (and session_id, written
\* with it) cleared.
RoundTrip ==
  \A p \in Players :
    (pstate[p] = "IN_GAME" /\ pgame[p] # 0 /\ gEnded[pgame[p]])
      ~> (pstate[p] = "IN_LOBBY" /\ pgame[p] = 0)

\* The runner never tracks a game the matchmaker created.
NeverAdopted == \A r \in Runners : rn[r].activeGames = <<>>

\* ---- specification: stale players
\* The reaper and one locked matchmaker with one idle session on a store of
\* connected READY players, the first one queued twice; heartbeats grow stale
\* and no player sends a message any more, connections may close.
InitStale ==
  /\ InitFrom([p \in Players |-> "READY"], LockQueue, Identified, {1})
  /\ mm = [m \in MMs |-> MMInit("lock")]

ReaperStep == RpSnapshot \/ RpRead \/ RpLrem \/ RpScan \/ RpPRead \/ RpPLrem \/ RpPHset

NextStale ==
  \/ \E p \in Players : Age(p) \/ Close(p)
  \/ NextPick
  \/ ReaperStep

SpecStale == InitStale /\ [][NextStale]_vars

\* The reaper's loop and the matchmaker's loop keep running.
SpecStaleFair == SpecStale /\ WF_vars(ReaperStep) /\ WF_vars(NextPick)

\* The reaper is done with player p.
Reaped(p) == p \notin SeqToSet(queue) /\ pstate[p] = "IN_LOBBY" /\ pgame[p] = 0

Registered(n) == [max_slots |-> MAX_SLOTS, active_games |-> n,
                  game_ids |-> IF n = 0 THEN <<>> ELSE <<1>>]

InitCapWith(Q, pc1) ==
  \E full \in BOOLEAN, two \in {"created", "free"}, rest \in SUBSET (Sessions \ {1}),
     queued \in Q, cs \in SUBSET Sessions :
    LET batch == {p \in Players : p <= BATCH_SIZE}
        created == IF two = "created" THEN rest ELSE {}
        free == IF two = "free" THEN rest ELSE {}
    IN /\ pstate = [p \in Players |-> IF p <= queued THEN "READY"
                                      ELSE IF full /\ p \in batch THEN "IN_GAME"
                                      ELSE "IN_LOBBY"]
       /\ queue = Ascending(1..queued)
       /\ gw = Identified
       /\ hbStale = [p \in Players |-> FALSE]
       /\ idle = {}
       /\ sstate = [s \in Sessions |-> IF s = 1 \/ s \in created THEN "IDLE" ELSE "NONE"]
       /\ pubFound = [x \in Games |-> IF full /\ x = 1 THEN 1 ELSE 0]
       /\ mmLock = 0
       /\ mmExpired = FALSE
       /\ finLock = [x \in Games |-> FALSE]
       /\ finWrites = [x \in Games |-> 0]
       /\ pubEnded = [x \in Games |-> 0]
       /\ gEnded = [x \in Games |-> FALSE]
       /\ rn = [r \in Runners |-> RnInit]
       /\ rp = RpInit
       /\ pttl = [p \in Players |-> 1]
       /\ NoConns
       /\ calc = NoCalc
       /\ cp = [t \in Ticks |-> IF t = 1 THEN [CpInit EXCEPT !.pc = pc1] ELSE CpInit]
       /\ cpt = [upCool |-> FALSE, low |-> 0]
       /\ pgame = [p \in Players |-> IF full /\ p \in batch THEN 1 ELSE 0]
       /\ mm = [m \in MMs |-> MMInit("lock")]
       /\ gstate = [x \in Games |-> IF full /\ x = 1 THEN "RUNNING" ELSE "NONE"]
       /\ gplayers = [x \in Games |-> IF full /\ x = 1 THEN batch ELSE {}]
       /\ gsess = [x \in Games |-> IF full /\ x = 1 THEN 1 ELSE 0]
       /\ nextGame = IF full THEN 2 ELSE 1
       /\ sess = [s \in Sessions |-> IF s = 1 THEN Registered(IF full THEN 1 ELSE 0)
                                     ELSE IF s \in free THEN Registered(0) ELSE NoSlots]
       /\ avail = [s \in Sessions |-> IF s = 1 THEN (IF full THEN 0 ELSE MAX_SLOTS)
                                      ELSE IF s \in free THEN MAX_SLOTS ELSE 0]
       /\ ct = cs

\* The queue is empty or holds every player.
InitCap == InitCapWith({0, NumPlayers}, "idle")

NextCap ==
  \/ \E t \in Ticks : CpStep(t)
  \/ CpCoolOver
  \/ CpLowElapsed

SpecCap == InitCap /\ [][NextCap]_vars

\* Tick t takes a step that deletes a session key or a member of
\* sessions:available.
Deletes(t) ==
  /\ cp'[t] # cp[t]
  /\ \/ \E s \in Sessions : KeyExists(s) /\ ~KeyExists(s)'
     \/ \E s \in Sessions : avail[s] > 0 /\ avail'[s] = 0

\* C14 (reconciliation guard): a tick in which getSessionContainers has
\* returned the empty list deletes no session:* key and no member of
\* sessions:available.
NoDeleteOnEmptyList ==
  [][\A t \in Ticks : Deletes(t) => ~cp[t].sawEmpty]_vars

\* Every deletion of a tick is decided on a non-empty list: the guard of
\* reconcileSessions and the arithmetic of scaleDown.
DeleteOnlyOnList ==
  [][\A t \in Ticks : Deletes(t) => cp[t].containers # {}]_vars

\* ---- specification: leaked reservation
\* The autoscaler ticks one at a time on a store in which slots are reserved
\* and games created; a reservation whose game is never created is the
\* matchmaker's crash between the two.
NextLeak ==
  \/ CpStep(1)
  \/ CpCoolOver
  \/ CpLowElapsed
  \/ SlotReserve
  \/ \E g \in Games : SlotCreate(g)

SpecLeak == InitCap /\ [][NextLeak]_vars

\* The ticks keep coming (setInterval) and each one runs to its end.
SpecLeakFair == SpecLeak /\ WF_vars(CpStep(1))

\* The games with a record on session s.
Recorded(s) == {g \in Games : gsess[g] = s /\ gstate[g] = "RUNNING"}

\* Session s counts a game that has no record.
Leaked(s) == sess[s].active_games > Cardinality(Recorded(s))

\* C15 (leaked-reservation recovery): a session that counts a game without a
\* record when a tick's reconciliation has listed its container is brought
\* back: eventually its active_games counts only recorded games.
LeakRecovered ==
  \A s \in Sessions :
    (Leaked(s) /\ cp[1].pc = "rec_keys" /\ s \in cp[1].containers) ~> ~Leaked(s)

\* No step of the autoscaler changes the active_games of a session key it
\* leaves in the store.
ProviderKeepsCount ==
  [][\A s \in Sessions :
       (cp'[1] # cp[1] /\ KeyExists(s) /\ KeyExists(s)')
         => sess'[s].active_games = sess[s].active_games]_vars

\* ---- specification: publish
\* One locked matchmaker and the runners of session 1, which holds a RUNNING
\* game from the start; the players have readied in any order, the other
\* session is idle.
InitPublish ==
  /\ mm = [m \in MMs |-> MMInit("lock")]
  /\ \E st \in [Players -> {"IN_GAME", "READY"}], q \in QueuesUpTo(MaxQueue) :
       /\ \A p \in Players : st[p] = "READY" => p \in SeqToSet(q)
       /\ InitBase(st, q, Identified, {2})
  /\ pgame = [p \in Players |-> IF p <= BATCH_SIZE THEN 1 ELSE 0]
  /\ gstate = [x \in Games |-> IF x = 1 THEN "RUNNING" ELSE "NONE"]
  /\ gplayers = [x \in Games |-> IF x = 1 THEN {p \in Players : p <= BATCH_SIZE} ELSE {}]
  /\ gsess = [x \in Games |-> IF x = 1 THEN 1 ELSE 0]
  /\ nextGame = 2
  /\ sess = [s \in Sessions |-> IF s = 1 THEN Registered(1) ELSE NoSlots]
  /\ avail = [s \in Sessions |-> 0]
  /\ ct = Sessions

NextPublish ==
  \/ NextPick
  \/ \E r \in Runners : RnStep(r)
  \/ \E g \in Games : GameTimeUp(g) \/ FinLockExpire(g)

SpecPublish == InitPublish /\ [][NextPublish]_vars

\* C16 (publish after write): when events:match_found of game g is published,
\* game g is RUNNING and its players set is the message's playerIds; when
\* events:match_ended of g is published, g is FINISHED.
PublishAfterWrite ==
  [][\A g \in Games :
       /\ pubFound'[g] # pubFound[g] =>
            /\ gstate[g] = "RUNNING"
            /\ \E m \in MMs : /\ mm[m].pc = "publish" /\ mm[m].game = g
                              /\ mm[m].playerIds # <<>>
                              /\ gplayers[g] = SeqToSet(mm[m].playerIds)
       /\ pubEnded'[g] # pubEnded[g] => gstate[g] = "FINISHED"]_vars

\* Both messages have been published: match_ended of the first game,
\* match_found of a later one.
PublishAfterWriteWitness ==
  pubEnded[1] > 0 /\ \E g \in Games : pubFound[g] > 0

\* ---- specification: stale-queue batching
\* One locked matchmaker on queues long enough for a second pass of
\* pickReadyPlayers' while loop; nobody else touches the store.
LongQueue == 6

InitBatch ==
  /\ mm = [m \in MMs |-> MMInitTrack]
  /\ \E st \in [Players -> {"IN_LOBBY", "READY"}], q \in QueuesUpTo(LongQueue) :
       /\ \A p \in Players : st[p] = "READY" => p \in SeqToSet(q)
       /\ InitFrom(st, q, Identified, Sessions)

SpecBatch == InitBatch /\ [][NextPick]_vars

\* The entries of q whose player is READY, in q's order.
ReadyOf(q) == LET IsReady(id) == StateOf(pstate, id) = "READY" IN SelectSeq(q, IsReady)

\* pickReadyPlayers of matchmaker m has returned.
PickReturned(m) == mm[m].pc \in {"create", "release_hset"}

BatchSecondPassWitness ==
  \E m \in MMs :
    /\ mm[m].pc = "create"
    /\ mm[m].inspected > 2 * BATCH_SIZE
    /\ ReadyOf(SubSeq(mm[m].q0, 1, 2 * BATCH_SIZE)) = <<>>

\* ---- specification: short batches
\* One locked matchmaker on queues of up to MAX_PULL + 1 entries: the players
\* with an entry are READY, the stale entries are those of expired records;
\* nobody else touches the store.
QueuesWithGhosts(n) == UNION {[1..k -> Players \cup {Ghost}] : k \in 0..n}

InitShort ==
  /\ mm = [m \in MMs |-> MMInitTrack]
  /\ \E q \in QueuesWithGhosts(MAX_PULL + 1) :
       InitFrom([p \in Players |-> IF p \in SeqToSet(q) THEN "READY" ELSE "IN_LOBBY"],
                q, Identified, Sessions)

SpecShort == InitShort /\ [][NextPick]_vars

\* The first pickReadyPlayers of matchmaker m's tick has returned less than a
\* batch: the tick ends without a match.
ShortPick(m) == mm[m].pc = "release_hset" /\ mm[m].i = 0

\* C18 (insufficient ready players change nothing): when a tick's
\* pickReadyPlayers returns less than a batch, every game record is one an
\* earlier tick created and published, the READY entries of queue:ready are
\* those the tick found, in their order, and when the tick has released the
\* session every session without a RUNNING game is in sessions:idle, IDLE.
ShortTickNoChange ==
  \A m \in MMs :
    /\ ShortPick(m) =>
         /\ \A g \in Games : gstate[g] # "NONE" => pubFound[g] > 0
         /\ ReadyOf(queue) = ReadyOf(mm[m].q0)
    /\ (mm[m].pc = "release" /\ mm[m].i = 0) =>
         \A s \in Sessions :
           (\A g \in Games : ~(gstate[g] = "RUNNING" /\ gsess[g] = s))
             => s \in idle /\ sstate[s] = "IDLE"

\* What the put-back keeps: no READY entry is lost, whatever the order.
ShortTickKeepsReady ==
  \A m \in MMs :
    ShortPick(m) =>
      \A id \in Players :
        Cardinality({i \in DOMAIN ReadyOf(queue) : ReadyOf(queue)[i] = id})
          = Cardinality({i \in DOMAIN ReadyOf(mm[m].q0) : ReadyOf(mm[m].q0)[i] = id})

\* ---- specification: repeated messages
\* Every client has said HELLO before and now repeats one message type; the
\* players start in any state, IN_GAME ones in game 1, with any short queue.
Ops == {"HELLO", "READY_UP", "UNREADY", "HEARTBEAT", "LEAVE"}

InitRepeat ==
  \E st \in [Players -> {"NONE", "IN_LOBBY", "READY", "IN_GAME"}],
     q \in QueuesUpTo(NumPlayers), plan \in [Players -> Ops] :
    LET ps == {p \in Players : st[p] = "IN_GAME"}
    IN /\ InitBase(st, q, [p \in Players |-> [GwInit EXCEPT !.id = TRUE, !.plan = plan[p]]],
                   Sessions \ {1})
       /\ pgame = [p \in Players |-> IF p \in ps THEN 1 ELSE 0]
       /\ mm = [m \in MMs |-> MMInit("lock")]
       /\ gstate = [x \in Games |-> IF x = 1 /\ ps # {} THEN "RUNNING" ELSE "NONE"]
       /\ gplayers = [x \in Games |-> IF x = 1 THEN ps ELSE {}]
       /\ gsess = [x \in Games |-> IF x = 1 /\ ps # {} THEN 1 ELSE 0]
       /\ nextGame = IF ps # {} THEN 2 ELSE 1
       /\ sess = [s \in Sessions |-> NoSlots]
       /\ avail = [s \in Sessions |-> 0]
       /\ ct = Sessions

NextRepeat ==
  \E p \in Players :
    \/ HelloRead(p) \/ HelloWrite(p) \/ ReadyUpSet(p) \/ ReadyUpPush(p) \/ Unready(p)
    \/ HeartbeatRead(p) \/ HeartbeatWrite(p) \/ Leave(p) \/ Close(p)

SpecRepeat == InitRepeat /\ [][NextRepeat]_vars

\* A step of the handler of player p's second or later message of one type.
Repeated(p) ==
  /\ gw'[p] # gw[p] /\ gw'[p].id = gw[p].id
  /\ \/ gw[p].sent >= 1 /\ gw[p].pc = "idle"
     \/ gw[p].sent >= 2

\* What the store holds for player p besides the heartbeat: the record's state
\* and game_id and the player's entries of queue:ready.
StoreOf(p) == <<pstate[p], pgame[p], Count(queue, p)>>

\* C19 (idempotent gateway operations): the handler of a message that repeats
\* the client's last one leaves the store as the first application left it.
Idempotent ==
  [][\A p \in Players : Repeated(p) => StoreOf(p)' = StoreOf(p)]_vars

\* The same for the message types other than READY_UP.
IdempotentButReadyUp ==
  [][\A p \in Players :
       (Repeated(p) /\ gw[p].plan # "READY_UP") => StoreOf(p)' = StoreOf(p)]_vars

\* ---- specification: hello
\* The gateway's HELLO, READY_UP and UNREADY handlers next to one locked
\* matchmaker; every player is connected, READY and queued.
InitHello ==
  /\ InitFrom([p \in Players |-> "READY"], Ascending(Players), Identified, Sessions)
  /\ mm = [m \in MMs |-> MMInit("lock")]

NextHello ==
  \/ \E p \in Players :
       \/ HelloRead(p) \/ HelloWrite(p) \/ ReadyUpSet(p) \/ ReadyUpPush(p) \/ Unready(p)
  \/ NextPick

SpecHello == InitHello /\ [][NextHello]_vars

\* The write of setPlayerState that ends player p's HELLO.
HelloWrites(p) == gw[p].pc \in {"hello_keep", "hello_set"} /\ gw'[p].pc = "idle"

\* C20 (HELLO respects the monotone-state rule): the write of a HELLO for a
\* player whose stored state is READY or IN_GAME leaves the state and the
\* game_id as they are.
HelloMonotone ==
  [][\A p \in Players :
       (HelloWrites(p) /\ pstate[p] \in {"READY", "IN_GAME"})
         => pstate'[p] = pstate[p] /\ pgame'[p] = pgame[p]]_vars

\* The same for the state setPlayerState read: a HELLO that read READY or
\* IN_GAME writes the heartbeat only.
HelloMonotoneAsRead ==
  [][\A p \in Players :
       /\ (gw[p].pc = "idle" /\ gw'[p].pc \in {"hello_keep", "hello_set"})
            => (gw'[p].pc = "hello_keep" <=> pstate[p] \in {"READY", "IN_GAME"})
       /\ (HelloWrites(p) /\ gw[p].pc = "hello_keep")
            => pstate'[p] = pstate[p] /\ pgame'[p] = pgame[p]]_vars

\* ---- specification: capacity provider, the starvation branch
\* Tick t leaves the metrics step of checkAndScale.
Decides(t) == cp[t].pc = "metrics" /\ cp'[t].pc # "metrics"

\* C21: a tick whose metrics show a full batch queued, no available slot and
\* fewer sessions than maxSessions goes on to create containers, also when the
\* last scale-up is less than scaleUpCooldown old.
StarvationBypassesCooldown ==
  [][\A t \in Ticks : Decides(t) /\ Starved(Metrics) => cp'[t].pc = "up_list"]_vars

\* What scaleUp does instead: inside the cooldown the starved tick ends with
\* the containers it found; outside it the tick goes on to scaleUp's list.
StarvationWaitsForCooldown ==
  [][\A t \in Ticks : Decides(t) /\ Starved(Metrics) =>
       IF cpt.upCool THEN cp'[t].pc = "idle" /\ ct' = ct ELSE cp'[t].pc = "up_list"]_vars

\* ---- specification: capacity provider, the low-usage timer
\* C22, second half: every tick that measures a utilization above
\* scaleUpThreshold leaves lowUsageSince reset, whether or not it creates a
\* container.
HighUsageResetsTimer ==
  [][\A t \in Ticks : Decides(t) /\ HighUsage(Metrics) => cpt'.low = 0]_vars

\* What checkAndScale does: the metrics step resets the timer in its last
\* branch only, on a utilization between the thresholds or with no session
\* beyond minSessions; a tick of high utilization leaves the timer as it is.
BalancedResetsTimer ==
  [][\A t \in Ticks : Decides(t) =>
       /\ Decision(Metrics).branch = "balanced" => cpt'.low = 0
       /\ HighUsage(Metrics) /\ ~Starved(Metrics) => cpt'.low = cpt.low]_vars

\* ---- specification: capacity provider, the choice of scaleDown
\* Tick t cuts idleContainers to toRemove (lines 476-478).
Selects(t) == cp[t].pc = "down_hget" /\ cp'[t].pc = "down_destroy"

\* Tick t destroys the container of session s.
Destroys(t, s) == cp[t].pc = "down_destroy" /\ s = Head(cp[t].todo) /\ s \in ct /\ s \notin ct'

\* C23: every container scaleDown selects has a session record with
\* active_games = 0 at the time it is selected.
SelectedAreIdle ==
  [][\A t \in Ticks : Selects(t) =>
       \A s \in SeqToSet(cp'[t].todo) : sess[s].active_games = 0]_vars

\* The other half of the claim as a property of the destroying step: no
\* container of a session that hosts a RUNNING game is destroyed.
RunningHostKept ==
  [][\A t \in Ticks, s \in Sessions : Destroys(t, s) =>
       ~\E g \in Games : gstate[g] = "RUNNING" /\ gsess[g] = s]_vars

\* What scaleDown reads: the selected containers were read with the state
\* field IDLE or absent; active_games is not read.
SelectedByState ==
  [][\A t \in Ticks : Selects(t) =>
       \A s \in SeqToSet(cp'[t].todo) :
          s = Head(cp[t].keys) => sstate[s] \in {"IDLE", "NONE"}]_vars

\* ---- specification: capacity provider, one tick at a time
\* The poll timer's ticks follow each other: a tick starts when the one before
\* it is over.
NextOneTick ==
  \/ CpStep(1)
  \/ CpCoolOver
  \/ CpLowElapsed

SpecOneTick == InitCap /\ [][NextOneTick]_vars

\* The containers tick t has destroyed so far, of those scaleDown listed.
DestroyedBy(t) ==
  IF cp[t].pc \in {"down_destroy", "down_del", "down_zrem"} THEN cp[t].containers \ ct ELSE {}

\* C24: one tick destroys at most scaleDownBatchSize containers.
ScaleDownBatchCap == Cardinality(DestroyedBy(1)) <= scaleDownBatchSize

\* What bounds a tick of scaleDown: the excess over minSessions.
ScaleDownKeepsMinimum ==
  cp[1].pc \in {"down_destroy", "down_del", "down_zrem"} =>
    Cardinality(cp[1].containers) - Cardinality(DestroyedBy(1)) >= minSessions

\* ---- specification: capacity provider, the ceiling of scaleUp
\* Tick t creates a container.
Creates(t) == cp[t].pc = "up_create" /\ ct' # ct

\* C25: no container created by scaleUp takes the number of containers beyond
\* maxSessions.
ScaleUpCeiling ==
  [][\A t \in Ticks : Creates(t) => Cardinality(ct') <= maxSessions]_vars

\* The same with every backend call of the creating tick answered: ticks that
\* overlap are enough.
ScaleUpCeilingListed ==
  [][\A t \in Ticks : Creates(t) /\ ~cp[t].sawEmpty => Cardinality(ct') <= maxSessions]_vars

\* The first half of the claim: a call of scaleUp has at most scaleUpBatchSize
\* vmids to create, and at most maxSessions less the containers it listed.
ScaleUpBatchCap ==
  [][\A t \in Ticks : cp[t].pc = "up_list" /\ cp'[t].pc = "up_find" =>
       /\ cp'[t].need <= scaleUpBatchSize
       /\ cp'[t].need <= maxSessions - Cardinality(cp'[t].containers)]_vars

\* ---- specification: capacity provider, the cooldown of scaleUp
\* The ticks on a store whose queue is shorter than a batch: no tick takes the
\* starvation branch, every call of scaleUp comes from the utilization branch.
InitUsage == InitCapWith(0 .. (playersPerSession - 1), "idle")

SpecUsage == InitUsage /\ [][NextCap]_vars

\* C26: two utilization-triggered calls of scaleUp that create containers are
\* scaleUpCooldown apart; so none creates a container while another, having
\* cloned one, is still writing its session key.
ScaleUpCooldown ==
  [][\A t, u \in Ticks : Creates(t) /\ u # t => cp[u].pc # "up_hset"]_vars

\* Ticks that do not overlap: no container is created within scaleUpCooldown
\* of the end of a call of scaleUp.
ScaleUpCooldownOneTick ==
  [][Creates(1) => ~cpt.upCool]_vars

SpecUsageOneTick == InitUsage /\ [][NextOneTick]_vars

\* ---- specification: capacity provider, start-up
\* ensureMinimumSessions: getSessionContainers and the test of line 684.
CpBootList(t) ==
  /\ cp[t].pc = "boot_list"
  /\ \E res \in ListResults :
       cp' = [cp EXCEPT ![t] = [Listed(cp[t], res) EXCEPT
                                  !.need = minSessions - Cardinality(res),
                                  !.pc = IF Cardinality(res) < minSessions THEN "boot_find"
                                         ELSE "idle"]]
  /\ UNCHANGED <<extVars, playerVars, queue, poolVars, gameVars, mmVars, gw, slotVars, rp, ct, cpt>>

\* ensureMinimumSessions: findAvailableVmids(needed).
CpBootFind(t) ==
  /\ cp[t].pc = "boot_find"
  /\ \E res \in ListResults :
       LET vmids == Slice(Ascending(Sessions \ res), cp[t].need)
       IN cp' = [cp EXCEPT ![t] = IF vmids = <<>> THEN UpDone(Listed(cp[t], res))
                                  ELSE [Listed(cp[t], res) EXCEPT !.todo = vmids,
                                                                  !.pc = "boot_create"]]
  /\ UNCHANGED <<extVars, playerVars, queue, poolVars, gameVars, mmVars, gw, slotVars, rp, ct, cpt>>

\* The loop of ensureMinimumSessions moves on; after it main starts the timer.
BootNext(c) ==
  IF Tail(c.todo) = <<>> THEN UpDone(c) ELSE [c EXCEPT !.todo = Tail(@), !.pc = "boot_create"]

\* createSessionContainer called by ensureMinimumSessions, the backend calls.
CpBootCreate(t) ==
  /\ cp[t].pc = "boot_create"
  /\ LET v == Head(cp[t].todo)
     IN \/ /\ ct' = ct
           /\ cp' = [cp EXCEPT ![t] = BootNext(cp[t])]
        \/ /\ v \notin ct
           /\ ct' = ct \cup {v}
           /\ \/ cp' = [cp EXCEPT ![t] = BootNext(cp[t])]
              \/ cp' = [cp EXCEPT ![t].pc = "boot_hset"]
  /\ UNCHANGED <<extVars, playerVars, queue, poolVars, gameVars, mmVars, gw, slotVars, rp, cpt>>

\* createSessionContainer called by ensureMinimumSessions, the session key.
CpBootHset(t) ==
  /\ cp[t].pc = "boot_hset"
  /\ sstate' = [sstate EXCEPT ![Head(cp[t].todo)] = "IDLE"]
  /\ cp' = [cp EXCEPT ![t] = BootNext(cp[t])]
  /\ UNCHANGED <<extVars, playerVars, queue, idle, gameVars, mmVars, gw, slotVars, rp, ct, cpt>>

\* One step of ensureMinimumSessions.
CpBoot(t) == CpBootList(t) \/ CpBootFind(t) \/ CpBootCreate(t) \/ CpBootHset(t)

\* A container of the range disappears from the backend (stopped and removed
\* by hand, lost with its node).
ContainerLost(s) ==
  /\ s \in ct
  /\ ct' = ct \ {s}
  /\ UNCHANGED <<extVars, playerVars, queue, poolVars, gameVars, mmVars, gw, slotVars, rp, cp, cpt>>

\* main: ensureMinimumSessions, then the ticks of the poll timer one after the
\* other, on a store whose queue is shorter than a batch.
InitBoot == InitCapWith(0 .. (playersPerSession - 1), "boot_list")

NextBoot ==
  \/ CpBoot(1)
  \/ CpStep(1)
  \/ CpCoolOver
  \/ CpLowElapsed
  \/ \E s \in Sessions : ContainerLost(s)

SpecBoot == InitBoot /\ [][NextBoot]_vars

\* main goes on and the poll timer keeps firing.
SpecBootFair == SpecBoot /\ WF_vars(CpBoot(1)) /\ WF_vars(CpStep(1))

\* C27: whenever there are fewer containers than minSessions the autoscaler
\* gets to create one (its backend calls answered), or the count is back.
BootstrapMinimum ==
  (Cardinality(ct) < minSessions) ~>
     (Cardinality(ct) >= minSessions \/ cp[1].pc \in {"boot_create", "up_create"})

\* The start-up half: with fewer containers than minSessions at start,
\* ensureMinimumSessions gets to create one.
BootstrapAtStartup ==
  (cp[1].pc = "boot_list" /\ Cardinality(ct) < minSessions) ~> (cp[1].pc = "boot_create")

\* ---- specification: runner crash
\* The process of runner r dies between acquireFinishLock and the pipeline of
\* finishGame; it is not started again.  Its lock:finish key stays.
RnCrash(r) ==
  /\ rn[r].pc \in {"fin_read", "fin_write"}
  /\ rn' = [rn EXCEPT ![r] = [RnInit EXCEPT !.pc = "dead"]]
  /\ UNCHANGED <<extVars, playerVars, queue, poolVars, gameVars, mmVars, gw, sess, avail, finLock,
                 finWrites, pubEnded, rp, capVars>>

\* Two runner processes of session 1, which holds one RUNNING game; the first
\* can die holding a finish lock, the second stays alive.
NextCrash ==
  \/ \E r \in Runners : RnStep(r)
  \/ RnCrash(1)
  \/ \E g \in Games : GameTimeUp(g) \/ FinLockExpire(g)

SpecCrash == InitFinish /\ [][NextCrash]_vars

\* The main loop of the live runner goes on and the lock's TTL runs.
SpecCrashFair ==
  SpecCrash /\ WF_vars(RnStep(2)) /\ \A g \in Games : WF_vars(FinLockExpire(g))

\* C28: a RUNNING game past its end_at that the live runner tracks is
\* eventually FINISHED.
FinalizationLiveness ==
  \A g \in Games :
    (gstate[g] = "RUNNING" /\ gEnded[g] /\ g \in SeqToSet(rn[2].activeGames))
      ~> (gstate[g] = "FINISHED")

\* Runner 1 died holding the finish lock of game 1, and the game is FINISHED
\* by the one write of the live runner.
FinalizationAfterCrash ==
  rn[1].pc = "dead" /\ gstate[1] = "FINISHED" /\ finWrites[1] = 1 /\ rn[2].pc = "fin_update"

\* ---- specification: runner restart
\* The runner processes of session 1 start on a record left by an earlier
\* process: game_ids lists up to two games, each RUNNING, FINISHED or without a
\* game record; the players of game 1 are in it while it runs.
InitRecover ==
  \E ids \in {<<>>} \cup {<<a>> : a \in Games}
             \cup {<<a, b>> : a \in Games, b \in Games},
     st \in [Games -> {"RUNNING", "FINISHED", "NONE"}] :
    LET listed == SeqToSet(ids)
        batch == {p \in Players : p <= BATCH_SIZE}
        on == st[1] = "RUNNING" /\ 1 \in listed
    IN /\ Cardinality(listed) = Len(ids)
       /\ \A g \in Games \ listed : st[g] = "NONE"
       /\ InitBase([p \in Players |-> IF on /\ p \in batch THEN "IN_GAME" ELSE "IN_LOBBY"],
                   <<>>, Identified, {})
       /\ pgame = [p \in Players |-> IF on /\ p \in batch THEN 1 ELSE 0]
       /\ mm = [m \in MMs |-> MMInit("lock")]
       /\ gstate = st
       /\ gplayers = [x \in Games |-> IF x = 1 /\ on THEN batch ELSE {}]
       /\ gsess = [x \in Games |-> IF x \in listed THEN 1 ELSE 0]
       /\ nextGame = MaxGames + 1
       /\ sess = [s \in Sessions |-> IF s = 1
                                     THEN [max_slots |-> MAX_SLOTS, active_games |-> Len(ids),
                                           game_ids |-> ids]
                                     ELSE NoSlots]
       /\ avail = [s \in Sessions |-> 0]
       /\ ct = Sessions

SpecRecover == InitRecover /\ [][NextFinish]_vars

\* Runner r takes the last step of registerSession.
Registers(r) == rn[r].pc = "reg_update" /\ rn'[r].pc = "check"

\* C29: when registerSession publishes the availability, every game the
\* session record lists that is RUNNING is tracked by the runner, listed in
\* game_ids and counted in active_games; the listed games the runner did not
\* read as RUNNING are dropped from the record.
RecoveryKeepsRunning ==
  [][\A r \in Runners : Registers(r) =>
       LET sid == rn[r].SESSION_ID
           before == SeqToSet(sess[sid].game_ids)
           after == SeqToSet(sess'[sid].game_ids)
           tracked == SeqToSet(rn'[r].activeGames)
       IN /\ \A g \in before : gstate[g] = "RUNNING" => g \in tracked /\ g \in after
          /\ sess'[sid].active_games = Cardinality(after)
          /\ Len(sess'[sid].game_ids) = Cardinality(after)
          /\ \A g \in before \ tracked : g \notin after]_vars

\* A runner has registered on a record that listed a RUNNING game and a game
\* that is not RUNNING: the first is kept, the second is gone.
RecoveryWitness ==
  \E r \in Runners, g, h \in Games :
    /\ rn[r].pc = "check"
    /\ gstate[g] = "RUNNING" /\ gstate[h] # "RUNNING" /\ gsess[h] = 1
    /\ sess[1].game_ids = <<g>> /\ sess[1].active_games = 1
    /\ rn[r].activeGames = <<g>>

\* ---- specification: one connection
\* ws.on("message"): a message of type t arrives on connection p and its
\* handler is appended to the chain (messageQueue.then).
GwArrive(p, t) ==
  /\ gw[p].plan = "FIFO" /\ Len(gw[p].inbox) < MaxMsgs
  /\ gw' = [gw EXCEPT ![p].inbox = Append(@, t)]
  /\ UNCHANGED <<extVars, playerVars, queue, poolVars, gameVars, mmVars, slotVars, rp, capVars>>

\* The handler of a message other than HELLO on a connection without an
\* identity: the NO_ID error, no store operation (lines 138-146).
GwNoId(p) ==
  /\ ~gw[p].id /\ gw[p].pc = "idle" /\ gw[p].sent < MaxMsgs
  /\ \E t \in Ops \ {"HELLO"} : Sends(gw[p], t)
  /\ gw' = [gw EXCEPT ![p].sent = @ + 1]
  /\ UNCHANGED <<extVars, playerVars, queue, poolVars, gameVars, mmVars, slotVars, rp, capVars>>

\* A new connection of player 1, whose messages arrive at any time, also while
\* a handler is between two awaits; the player's record is in any state.
InitSerial ==
  \E st \in {"NONE", "IN_LOBBY", "READY", "IN_GAME"} :
    /\ InitFrom([p \in Players |-> IF p = 1 THEN st ELSE "IN_LOBBY"],
                IF st = "READY" THEN <<1>> ELSE <<>>,
                [p \in Players |-> [GwInit EXCEPT !.plan = "FIFO"]], Sessions)
    /\ mm = [m \in MMs |-> MMInit("lock")]

NextSerial ==
  \/ \E t \in Ops : GwArrive(1, t)
  \/ \E p \in Players :
       \/ HelloRead(p) \/ HelloWrite(p) \/ ReadyUpSet(p) \/ ReadyUpPush(p) \/ Unready(p)
       \/ HeartbeatRead(p) \/ HeartbeatWrite(p) \/ Leave(p) \/ GwNoId(p) \/ Age(p)

SpecSerial == InitSerial /\ [][NextSerial]_vars

\* A handler of connection p starts.
Starts(p) == gw'[p].sent = gw[p].sent + 1

\* The first step of the handler of a message of type t on connection p, as
\* the connection and the store show it.
FirstStepOf(p, t) ==
  CASE t = "HELLO" -> gw'[p].pc \in {"hello_keep", "hello_set"} /\ gw'[p].id
    [] ~gw[p].id -> gw'[p].pc = "idle" /\ pstate' = pstate /\ queue' = queue
    [] t = "READY_UP" -> gw'[p].pc = "ready_push" /\ pstate'[p] = "READY"
    [] t = "HEARTBEAT" -> gw'[p].pc \in {"beat_keep", "beat_set"} /\ pstate' = pstate
    [] t = "UNREADY" -> gw'[p].pc = "idle" /\ pstate'[p] = "IN_LOBBY" /\ ~hbStale'[p]
    [] t = "LEAVE" -> gw'[p].pc = "idle" /\ pstate'[p] = "IN_LOBBY" /\ hbStale' = hbStale

ReadyUpWaitsForHello ==
  /\ gw[1].pc \in {"hello_keep", "hello_set"} /\ gw[1].sent = 1
  /\ Len(gw[1].inbox) >= 2 /\ gw[1].inbox[1] = "HELLO" /\ gw[1].inbox[2] = "READY_UP"

InPull(m) == mm[m].pc \in {"lpop", "hget"}

\* The entries the running call has popped so far from queue:ready.
PoppedInCall(m) == Len(mm[m].q0) - Len(queue)

\* The round's toPull as line 96 computes it from the picked and inspected of
\* the round's start.
RoundBudget(m) ==
  LET before == IF mm[m].pc = "hget" THEN mm[m].inspected - Len(mm[m].cands)
                ELSE mm[m].inspected
  IN Min(2 * (BATCH_SIZE - Len(mm[m].picked)), MAX_PULL - before)

\* What is left of the loop: three steps for every entry of the budget not yet
\* popped (lpop, the end of the round, the hget pipeline), and the steps of the
\* round in progress.
PullRank(m) ==
  3 * (MAX_PULL - PoppedInCall(m))
    + (IF mm[m].pc = "hget" THEN 1 ELSE IF mm[m].cands # <<>> THEN 2 ELSE 0)

\* C31 (termination and pull budget): a call of pickReadyPlayers pops at most
\* MAX_PULL entries from queue:ready, each round of its loop pops at most
\* min(2 * (BATCH_SIZE - |picked|), MAX_PULL - inspected) of them, and the loop
\* terminates: every step that stays in it lowers a rank that is never
\* negative, whatever READY and stale entries the queue holds.
PullBudget ==
  /\ [](\A m \in MMs :
          /\ InPull(m) =>
               /\ PoppedInCall(m) <= MAX_PULL
               /\ Len(mm[m].cands) + mm[m].pull <= RoundBudget(m)
               /\ PullRank(m) >= 0
          /\ mm[m].inspected <= MAX_PULL)
  /\ [][\A m \in MMs : InPull(m) /\ InPull(m)' /\ mm[m]' # mm[m]
                          => PullRank(m)' < PullRank(m)]_vars

\* A call stopped by the budget: MAX_PULL entries popped, READY and stale ones
\* among them, and entries left in the queue.
PullBudgetReached ==
  \E m \in MMs :
    /\ mm[m].pc = "hget"
    /\ PoppedInCall(m) = MAX_PULL
    /\ queue # <<>>
    /\ Ghost \in SeqToSet(mm[m].cands)
    /\ mm[m].picked # <<>>

\* ---- specification: the rebuild of sessions:available
\* Checked on the ticks that follow each other (SpecOneTick): nobody else
\* writes the store during a pass of reconcileSessions.

\* Tick t has finished a pass of reconcileSessions whose getSessionContainers
\* returned containers.
Reconciled(t) == cp[t].pc = "metrics" /\ cp[t].containers # {}

\* C32 (availability rebuild): after a pass of reconcileSessions with a
\* non-empty list and no concurrent writer, sessions:available holds exactly
\* the sessions whose key exists with max_slots - active_games > 0, each with
\* that difference as its score, and no other member.
AvailableRebuilt ==
  Reconciled(1) =>
    \A s \in Sessions :
      avail[s] = IF KeyExists(s) /\ AvailableSlotsOf(s) > 0 THEN AvailableSlotsOf(s) ELSE 0

\* A pass that had to add a member and to remove one.
AvailableRebuiltWitness ==
  /\ Reconciled(1)
  /\ \E s \in Sessions : cp[1].cur[s] = 0 /\ avail[s] > 0
  /\ \E s \in Sessions : cp[1].cur[s] > 0 /\ avail[s] = 0

\* ---- specification: the floor of scaleDown
\* Checked on the overlapping ticks of the capacity provider (SpecCap).

\* C33 (scale-down floor): no destroy of scaleDown takes the containers below
\* minSessions, and the toRemove of one call has at most as many containers as
\* the call listed beyond minSessions.
ScaleDownFloor ==
  [][\A t \in Ticks :
       /\ (\E s \in Sessions : Destroys(t, s)) => Cardinality(ct') >= minSessions
       /\ Selects(t) =>
            Len(cp'[t].todo) <= Cardinality(cp[t].containers) - minSessions]_vars

\* Two ticks are in scaleDown at once, one of them has destroyed a container
\* and minSessions containers are left.
ScaleDownFloorWitness ==
  /\ cp[1].pc = "down_del"
  /\ cp[2].pc = "down_destroy"
  /\ Cardinality(ct) = minSessions
  /\ Cardinality(cp[1].containers) > minSessions + 1

\* ---- specification: the sessions needed
\* checkAndScale's arithmetic alone: the metrics and the configuration are
\* drawn from small ranges, the store is empty and nothing else runs.  full
\* says that every slot of the total sessions is used (utilization 100 %),
\* else none is.
MaxDemand == 3
MaxPerSession == 3

CalcInputs ==
  [pig : 0..MaxDemand, queue : 0..MaxDemand, ppg : 1..MaxPerSession, sps : 1..MaxPerSession,
   lo : {0, minSessions}, hi : {maxSessions, 2 * maxSessions}, total : 0..maxSessions,
   full : BOOLEAN, needed : {0}, request : {0}, done : {FALSE}]

InitNeeded ==
  /\ InitCore([p \in Players |-> "NONE"], <<>>, [p \in Players |-> GwInit], Sessions)
  /\ NoConns
  /\ calc \in CalcInputs
  /\ mm = [m \in MMs |-> MMInit("lock")]
  /\ pgame = [p \in Players |-> 0]
  /\ gstate = [x \in Games |-> "NONE"]
  /\ gplayers = [x \in Games |-> {}]
  /\ gsess = [x \in Games |-> 0]
  /\ nextGame = 1
  /\ sess = [s \in Sessions |-> NoSlots]
  /\ avail = [s \in Sessions |-> 0]
  /\ ct = Sessions

\* The metrics record getScalingMetrics returns for the inputs c.
MetricsOf(c) ==
  [queueLength |-> c.queue, totalSessions |-> c.total, totalSlots |-> c.total * c.sps,
   usedSlots |-> IF c.full THEN c.total * c.sps ELSE 0,
   availableSlots |-> IF c.full THEN 0 ELSE c.total * c.sps,
   playersInGame |-> c.pig]

\* Lines 636-639 on the inputs, and the argument checkAndScale passes to
\* scaleUp or scaleDown (0 when it calls neither).
NeededApply ==
  /\ ~calc.done
  /\ calc' = [calc EXCEPT !.needed = Clamp(SessionsNeeded(calc.pig + calc.queue, calc.ppg, calc.sps),
                                           calc.lo, calc.hi),
                          !.request = Decision(MetricsOf(calc)).n,
                          !.done = TRUE]
  /\ UNCHANGED <<playerVars, queue, poolVars, gameVars, mmVars, gw, slotVars, rp, capVars,
                 pttl, connVars>>

NextNeeded == NeededApply

SpecNeeded == InitNeeded /\ [][NextNeeded]_vars

\* The inputs are those of the configuration the ticks run with.
AsConfigured(c) ==
  /\ c.ppg = playersPerSession /\ c.sps = slotsPerSession
  /\ c.lo = minSessions /\ c.hi = maxSessions

\* C34 (sessions needed): for non-negative players in game and queue and
\* positive players per game and slots per session, the clamped two-step
\* ceiling of checkAndScale equals the clamped ceiling of the unrounded quotient
\* (pig + queue) / ppg / sps, and a scale-up of the utilization branch is
\* called with needed - total sessions.
NeededIsCeiling ==
  calc.done =>
    /\ calc.needed = Clamp(Ceil(calc.pig + calc.queue, calc.ppg * calc.sps), calc.lo, calc.hi)
    /\ (/\ AsConfigured(calc)
        /\ HighUsage(MetricsOf(calc)) /\ ~Starved(MetricsOf(calc))
        /\ Decision(MetricsOf(calc)).branch = "up")
         => calc.request = calc.needed - calc.total

\* Both roundings matter and the clamp does not bind.
NeededIsCeilingWitness ==
  /\ calc.done
  /\ (calc.pig + calc.queue) % calc.ppg # 0
  /\ Ceil(calc.pig + calc.queue, calc.ppg) % calc.sps # 0
  /\ calc.sps > 1 /\ calc.ppg > 1
  /\ calc.lo < calc.needed /\ calc.needed < calc.hi

\* A scale-up of the utilization branch on the configuration of the ticks.
UtilizationScaleUp ==
  /\ calc.done /\ AsConfigured(calc)
  /\ HighUsage(MetricsOf(calc)) /\ ~Starved(MetricsOf(calc))
  /\ calc.request > 0

\* ---- specification: the time to live of the player records
\* The gateway alone on an empty store, and the expiry of the records that have
\* a time to live.

\* player:{id} expires: the key is gone with all its fields.
Expire(p) ==
  /\ pstate[p] # "NONE" /\ pttl[p] # 0
  /\ pstate' = [pstate EXCEPT ![p] = "NONE"]
  /\ pgame' = [pgame EXCEPT ![p] = 0]
  /\ hbStale' = [hbStale EXCEPT ![p] = FALSE]
  /\ pttl' = [pttl EXCEPT ![p] = 0]
  /\ UNCHANGED <<queue, poolVars, gameVars, mmVars, gw, slotVars, rp, capVars, connVars, calc>>

NextTtl ==
  \E p \in Players :
    \/ HelloRead(p) \/ HelloWrite(p) \/ ReadyUpSet(p) \/ ReadyUpPush(p) \/ Unready(p)
    \/ HeartbeatRead(p) \/ HeartbeatWrite(p) \/ Leave(p) \/ Close(p) \/ Expire(p)

SpecTtl == InitGate /\ [][NextTtl]_vars

\* The step is a write of player:{p} by the gateway: the hset of HELLO, of
\* READY_UP, of UNREADY or LEAVE, of HEARTBEAT, or of the close handler.
GwWrites(p) ==
  \/ gw[p].pc \in {"hello_keep", "hello_set", "beat_keep", "beat_set"} /\ gw'[p].pc = "idle"
  \/ gw[p].pc = "idle" /\ gw'[p].pc = "ready_push"
  \/ gw[p].pc = "idle" /\ gw'[p].pc = "idle" /\ gw'[p].sent = gw[p].sent + 1
  \/ gw[p].id /\ ~gw'[p].id

\* C35 (player TTL refresh): every player record has a time to live, and every
\* write of player:{id} by the gateway sets it anew.
TtlRefreshed ==
  /\ [](\A p \in Players : pstate[p] # "NONE" => pttl[p] # 0)
  /\ [][\A p \in Players : GwWrites(p) => pttl'[p] \notin {0, pttl[p]}]_vars

\* What the code keeps: the write of HELLO sets the time to live anew.
HelloRefreshes ==
  [][\A p \in Players :
       gw[p].pc \in {"hello_keep", "hello_set"} /\ gw'[p].pc = "idle"
         => pttl'[p] \notin {0, pttl[p]}]_vars

\* A connected player whose record expired between two of its HEARTBEATs and
\* was created again by the second, without a time to live.
HeartbeatAfterExpiry ==
  \E p \in Players :
    /\ gw[p].id /\ gw[p].pc = "idle" /\ gw[p].sent = 3
    /\ pstate[p] = "IN_LOBBY" /\ pttl[p] = 0

\* ---- specification: one game per player
\* Checked on the gateway's handlers next to one locked matchmaker (SpecHello).

\* The RUNNING games whose player set holds p.
RunningGamesOf(p) == {g \in Games : gstate[g] = "RUNNING" /\ p \in gplayers[g]}

\* C36 (one game per player): every player id is in the player set of at most
\* one RUNNING game, whatever the clients send and however often an id is in
\* queue:ready.
OneGamePerPlayer == \A p \in Players : Cardinality(RunningGamesOf(p)) <= 1

\* ---- specification: the members of the pool
\* Checked on the matchmakers whose store calls may reject (SpecThrow).

\* C37 (pool members are free): no member of sessions:idle is the session of a
\* RUNNING game, the error path of the matchmaker's try included.
PoolMembersFree ==
  \A s \in idle : \A g \in Games : ~(gstate[g] = "RUNNING" /\ gsess[g] = s)

\* The same without rejected store calls holds until the lock expires under
\* its holder (SpecLock).
PoolMembersFreeUntilExpiry == ~mmExpired => PoolMembersFree

\* ---- specification: the identity maps
\* The gateway with two sockets on an empty store: each connects, says HELLO
\* with any player id, any number of times, and closes.

\* wss.on("connection").
ConnOpen(c) ==
  /\ wsState[c].open = "new"
  /\ wsState' = [wsState EXCEPT ![c].open = "open"]
  /\ UNCHANGED <<playerVars, queue, poolVars, gameVars, mmVars, gw, slotVars, rp, capVars,
                 pttl, wsToPlayer, playerToWs, calc>>

\* HELLO with player id p, up to the await of setPlayerState (lines 125-132):
\* both maps are set.
ConnHello(c, p) ==
  /\ wsState[c].open = "open" /\ wsState[c].hello = 0
  /\ wsToPlayer' = [wsToPlayer EXCEPT ![c] = p]
  /\ playerToWs' = [playerToWs EXCEPT ![p] = c]
  /\ wsState' = [wsState EXCEPT ![c].hello = p]
  /\ UNCHANGED <<playerVars, queue, poolVars, gameVars, mmVars, gw, slotVars, rp, capVars,
                 pttl, calc>>

\* setPlayerState(playerId, "IN_LOBBY") of the HELLO (lines 38-58).
ConnHelloWrite(c) ==
  /\ wsState[c].hello # 0
  /\ LET p == wsState[c].hello
     IN /\ pstate' = IF pstate[p] \in {"READY", "IN_GAME"} THEN pstate
                     ELSE [pstate EXCEPT ![p] = "IN_LOBBY"]
        /\ hbStale' = [hbStale EXCEPT ![p] = FALSE]
        /\ pttl' = [pttl EXCEPT ![p] = Refreshed(@)]
  /\ wsState' = [wsState EXCEPT ![c].hello = 0]
  /\ UNCHANGED <<pgame, queue, poolVars, gameVars, mmVars, gw, slotVars, rp, capVars,
                 wsToPlayer, playerToWs, calc>>

\* ws.on("close") up to its await (lines 192-199): the socket's entry and the
\* entry of its player id are deleted.
ConnClose(c) ==
  /\ wsState[c].open = "open"
  /\ LET playerId == wsToPlayer[c]
     IN /\ wsToPlayer' = [wsToPlayer EXCEPT ![c] = 0]
        /\ playerToWs' = IF playerId # 0 THEN [playerToWs EXCEPT ![playerId] = 0]
                         ELSE playerToWs
        /\ wsState' = [wsState EXCEPT ![c].open = "closed", ![c].closing = playerId]
  /\ UNCHANGED <<playerVars, queue, poolVars, gameVars, mmVars, gw, slotVars, rp, capVars,
                 pttl, calc>>

\* The close handler's hset state IN_LOBBY (line 200).
ConnCloseWrite(c) ==
  /\ wsState[c].closing # 0
  /\ pstate' = [pstate EXCEPT ![wsState[c].closing] = "IN_LOBBY"]
  /\ wsState' = [wsState EXCEPT ![c].closing = 0]
  /\ UNCHANGED <<pgame, hbStale, queue, poolVars, gameVars, mmVars, gw, slotVars, rp, capVars,
                 pttl, wsToPlayer, playerToWs, calc>>

NextConn ==
  \E c \in Conns :
    \/ ConnOpen(c) \/ (\E p \in Players : ConnHello(c, p)) \/ ConnHelloWrite(c)
    \/ ConnClose(c) \/ ConnCloseWrite(c)

SpecConn == InitGate /\ [][NextConn]_vars

\* The open sockets that have identified as player p.
OpenAs(p) == {c \in Conns : wsState[c].open = "open" /\ wsToPlayer[c] = p}

\* C38 (identity map consistency): while an open socket has identified as
\* player p, playerToWs has an entry for p that is an open socket; and the close
\* handler of another socket does not write IN_LOBBY for p meanwhile.
IdentityMapConsistent ==
  /\ [](\A p \in Players :
          OpenAs(p) # {} => playerToWs[p] # 0 /\ wsState[playerToWs[p]].open = "open")
  /\ [][\A c \in Conns :
          wsState[c].closing # 0 /\ wsState'[c].closing = 0
            => OpenAs(wsState[c].closing) = {}]_vars

\* ---- specification: the frame of finishGame
\* One runner on a session that holds one RUNNING game whose players are
\* connected; the heartbeat of the first player may grow stale, the reaper
\* runs, and the player may send READY_UP.  The runner's steps are those of a
\* process that finds its game in the session's record.
NextFrame ==
  \/ RnRegRead(1) \/ RnRegCheck(1) \/ RnRegUpdate(1) \/ RnCheckRead(1) \/ RnProcRead(1)
  \/ RnAcquire(1) \/ RnFinRead(1) \/ RnFinWrite(1) \/ RnFinUpdate(1) \/ RnFinPublish(1)
  \/ \E g \in Games : GameTimeUp(g)
  \/ Age(1) \/ ReadyUpSet(1) \/ ReadyUpPush(1)
  \/ RpSnapshot \/ RpRead \/ RpLrem \/ RpScan \/ RpPRead \/ RpPLrem \/ RpPHset

SpecFrame == InitFinish /\ [][NextFrame]_vars

\* Runner r's finishGame writes its pipeline.
FinishWrites(r) == rn[r].pc = "fin_write" /\ rn'[r].pc = "fin_update"

\* C39 (frame of finishGame): the pipeline of finishGame for game G leaves the
\* state and the game_id of every player whose game_id is not G as they are.
FinishFrame ==
  [][\A r \in Runners : \A p \in Players :
       FinishWrites(r) /\ pgame[p] # rn[r].cur
         => pstate'[p] = pstate[p] /\ pgame'[p] = pgame[p]]_vars

\* What the pipeline keeps: the players outside of the game's player set.
FinishFrameOfSet ==
  [][\A r \in Runners : \A p \in Players :
       FinishWrites(r) /\ p \notin gplayers[rn[r].cur]
         => pstate'[p] = pstate[p] /\ pgame'[p] = pgame[p]]_vars

\* ---- specification: the ticks of the capacity provider
\* Checked on the ticks the poll timer starts (SpecCap).

\* The executions of checkAndScale that have started and not returned.
InProgress == {t \in Ticks : cp[t].pc # "idle"}

\* C40 (ticks do not overlap): at most one execution of checkAndScale is in
\* progress at any time.
TicksDoNotOverlap == Cardinality(InProgress) <= 1

\* One tick reads the cooldown and the timers in checkAndScale while another
\* is creating a container.
TickReadsDuringCreate ==
  \E t, u \in Ticks : cp[t].pc = "up_create" /\ cp[u].pc = "metrics"

====
